---- MODULE Spec2Model ----
(***************************************************************************)
(* A model of the OpenCompiler build service: the smart-build loop         *)
(* (smartBuild.js), the fix validators (smartBuild.js, ai.js) and the      *)
(* agent build routes with their per-agent lock (routes/agent.js, the      *)
(* server's /compile routes and buildManager.js).                          *)
(***************************************************************************)
EXTENDS Integers, Sequences, FiniteSets, TLC

\* config.smartBuild.maxIterations: an environment setting (default 8).
MAX_ITERATIONS == 3

(***************************************************************************)
(* Paths.  A proposal path is a sequence of segments; path.join and        *)
(* path.extname are computed on the segments.                              *)
(***************************************************************************)
Segments == {"..", ".", "src", "lib.rs", "Cargo.toml", "notes.md"}

\* The extension of one path segment ("" for none).
SegExt(s) ==
  CASE s = "lib.rs" -> ".rs"
    [] s = "Cargo.toml" -> ".toml"
    [] s = "notes.md" -> ".md"
    [] OTHER -> ""

\* path.extname(p): the extension of the last segment.
ExtName(p) == IF p = <<>> THEN "" ELSE SegExt(p[Len(p)])

\* String.prototype.endsWith('.rs') on the path text.
EndsWithRs(p) == p # <<>> /\ SegExt(p[Len(p)]) = ".rs"

RECURSIVE NormalizeFrom(_, _)
NormalizeFrom(p, acc) ==
  IF p = <<>> THEN acc
  ELSE LET s == Head(p) IN
    IF s = "." THEN NormalizeFrom(Tail(p), acc)
    ELSE IF s = ".." /\ acc # <<>> /\ acc[Len(acc)] # ".."
         THEN NormalizeFrom(Tail(p), SubSeq(acc, 1, Len(acc) - 1))
         ELSE NormalizeFrom(Tail(p), Append(acc, s))

\* path.join(projectDir, p), given relative to projectDir: "." segments are
\* dropped and ".." climbs, so a result that starts with ".." lies outside
\* projectDir and the empty result is projectDir itself.
PathJoin(p) == NormalizeFrom(p, <<>>)

InsideProject(t) == t = <<>> \/ t[1] # ".."

(***************************************************************************)
(* The file system below projectDir: a function from joined paths of       *)
(* regular files to their content.  Directories are the proper prefixes    *)
(* of file paths, projectDir and its ancestors.                            *)
(***************************************************************************)
IsFile(fs, t) == t \in DOMAIN fs

IsDir(fs, t) ==
  \/ \A k \in 1..Len(t) : t[k] = ".."
  \/ \E f \in DOMAIN fs : Len(f) > Len(t) /\ SubSeq(f, 1, Len(t)) = t

\* fs.access(fullPath) resolves.
PathExists(fs, t) == IsFile(fs, t) \/ IsDir(fs, t)

\* fs.mkdir(dirname, {recursive}) then fs.writeFile resolve: the target is no
\* directory and no proper prefix of it is a regular file.
CanWrite(fs, t) ==
  /\ ~IsDir(fs, t)
  /\ \A k \in 1..(Len(t) - 1) : ~IsFile(fs, SubSeq(t, 1, k))

WriteFile(fs, t, c) == (t :> c) @@ fs

RemoveFile(fs, t) == [f \in (DOMAIN fs) \ {t} |-> fs[f]]

(***************************************************************************)
(* File contents: the numbers the regression guard reads off a text (the   *)
(* matches of its four patterns and the line count).  "undefined" is a     *)
(* proposal without a content field; an empty string has empty = TRUE.     *)
(***************************************************************************)
Text(f, s, e, i, l) ==
  [kind |-> "text", empty |-> FALSE, fns |-> f, structs |-> s, enums |-> e,
   impls |-> i, lines |-> l]

Undefined ==
  [kind |-> "undefined", empty |-> FALSE, fns |-> 0, structs |-> 0,
   enums |-> 0, impls |-> 0, lines |-> 0]

EmptyString ==
  [kind |-> "text", empty |-> TRUE, fns |-> 0, structs |-> 0, enums |-> 0,
   impls |-> 0, lines |-> 1]

\* A test that takes every content, a missing one too, for present.
TruthyAnything(c) == TRUE

\* JavaScript truthiness of fix.content.
Truthy(c) == c.kind = "text" /\ ~c.empty

(***************************************************************************)
(* A proposal (one element of the Advisor's fixes array).  shape tells an  *)
(* object from a null element and from an object whose path is a truthy    *)
(* non-string; the path <<>> is a missing (or empty) path.                 *)
(***************************************************************************)
Fix(a, p, c) == [shape |-> "object", action |-> a, path |-> p, content |-> c]

NullFix == [shape |-> "null", action |-> "none", path |-> <<>>, content |-> Undefined]

NonStringPathFix(a, c) ==
  [shape |-> "nonStringPath", action |-> a, path |-> <<>>, content |-> c]

(***************************************************************************)
(* validateRsFixSafety: the regression guard on an update of a .rs file.   *)
(***************************************************************************)
\* A guard that rounds the 70% threshold down to a whole number of lines.
RsGuardRounded(old, new) ==
  IF new.fns < old.fns THEN "functions reduced"
  ELSE IF new.structs < old.structs THEN "structs reduced"
  ELSE IF new.enums < old.enums THEN "enums reduced"
  ELSE IF new.impls < old.impls THEN "impl blocks reduced"
  ELSE IF old.lines > 10 /\ new.lines < (7 * old.lines) \div 10 THEN "code reduced"
  ELSE "ok"

\* The guard's verdict on replacing content old by content new: "ok" or the
\* reason of the rejection.  newLines < existingLines * 0.7 is decided on
\* integers: 10 * newLines < 7 * existingLines.
RsGuard(old, new) ==
  IF new.fns < old.fns THEN "functions reduced"
  ELSE IF new.structs < old.structs THEN "structs reduced"
  ELSE IF new.enums < old.enums THEN "enums reduced"
  ELSE IF new.impls < old.impls THEN "impl blocks reduced"
  ELSE IF old.lines > 10 /\ 10 * new.lines < 7 * old.lines THEN "code reduced"
  ELSE "ok"

\* A target that cannot be read (no regular file there) makes readFile
\* reject, and the catch clause answers safe.
ValidateRsFixSafety(fs, fix) ==
  LET t == PathJoin(fix.path) IN
  IF ~IsFile(fs, t) THEN [safe |-> TRUE, reason |-> "ok"]
  ELSE LET r == RsGuard(fs[t], fix.content) IN [safe |-> r = "ok", reason |-> r]

IsConfigExt(ext) == ext \in {".toml", ".json", ".lock"}

\* A validator without the create and delete rules for .rs paths.
SafeCheckWithoutRsActionRules(fs, fix, iteration) ==
  LET ext == ExtName(fix.path)
      t == PathJoin(fix.path)
      v == ValidateRsFixSafety(fs, fix)
  IN
  IF fix.shape = "null" THEN [verdict |-> "throw", reason |-> "TypeError", fix |-> fix]
  ELSE IF (fix.shape = "object" /\ fix.path = <<>>) \/ ~Truthy(fix.content)
    THEN [verdict |-> "reject", reason |-> "Missing path or content", fix |-> fix]
  ELSE IF fix.shape = "nonStringPath"
    THEN [verdict |-> "throw", reason |-> "TypeError", fix |-> fix]
  ELSE IF iteration = 0
    THEN [verdict |-> "reject", reason |-> "Iteration 0: only config files allowed", fix |-> fix]
  ELSE IF ext = ".rs" /\ ~v.safe
    THEN [verdict |-> "reject", reason |-> v.reason, fix |-> fix]
  ELSE IF ~CanWrite(fs, t)
    THEN [verdict |-> "reject", reason |-> "File write failed", fix |-> fix]
  ELSE [verdict |-> "apply", reason |-> "ok", fix |-> fix]

(***************************************************************************)
(* applySafeFixes: one proposal.  The verdict is "throw" (a TypeError      *)
(* leaves applySafeFixes), "apply" or "reject" with its reason; fix is     *)
(* the proposal with its action as the checks leave it.                    *)
(***************************************************************************)
SafeCheck(fs, fix, iteration) ==
  LET ext == ExtName(fix.path)
      isRs == ext = ".rs"
      t == PathJoin(fix.path)
      coerced == IF iteration > 0 /\ isRs /\ fix.action = "create" /\ PathExists(fs, t)
                 THEN [fix EXCEPT !.action = "update"] ELSE fix
      v == ValidateRsFixSafety(fs, coerced)
  IN
  IF fix.shape = "null" THEN [verdict |-> "throw", reason |-> "TypeError", fix |-> fix]
  ELSE IF (fix.shape = "object" /\ fix.path = <<>>) \/ ~Truthy(fix.content)
    THEN [verdict |-> "reject", reason |-> "Missing path or content", fix |-> fix]
  ELSE IF fix.shape = "nonStringPath"
    THEN [verdict |-> "throw", reason |-> "TypeError", fix |-> fix]
  ELSE IF iteration = 0 /\ ~IsConfigExt(ext)
    THEN [verdict |-> "reject", reason |-> "Iteration 0: only config files allowed", fix |-> fix]
  ELSE IF iteration > 0 /\ isRs /\ fix.action = "create" /\ ~PathExists(fs, t)
    THEN [verdict |-> "reject", reason |-> "Cannot create new .rs files", fix |-> fix]
  ELSE IF iteration > 0 /\ isRs /\ coerced.action = "delete"
    THEN [verdict |-> "reject", reason |-> "Cannot delete .rs files", fix |-> coerced]
  ELSE IF iteration > 0 /\ isRs /\ ~v.safe
    THEN [verdict |-> "reject", reason |-> v.reason, fix |-> coerced]
  ELSE IF iteration = 0 /\ isRs
    THEN [verdict |-> "reject", reason |-> "Iteration 0: .rs files forbidden", fix |-> fix]
  ELSE IF ~CanWrite(fs, t)
    THEN [verdict |-> "reject", reason |-> "File write failed", fix |-> coerced]
  ELSE [verdict |-> "apply", reason |-> "ok", fix |-> coerced]

NoSafeResult(fs) ==
  [fs |-> fs, applied |-> <<>>, rejected |-> <<>>, written |-> <<>>, threw |-> FALSE]

RECURSIVE ApplySafeFrom(_, _, _)
ApplySafeFrom(acc, fixes, iteration) ==
  IF fixes = <<>> \/ acc.threw THEN acc
  ELSE LET c == SafeCheck(acc.fs, Head(fixes), iteration) IN
    ApplySafeFrom(
      CASE c.verdict = "throw" -> [acc EXCEPT !.threw = TRUE]
        [] c.verdict = "reject" ->
             [acc EXCEPT !.rejected = Append(@, [fix |-> c.fix, reason |-> c.reason])]
        [] OTHER ->
             [acc EXCEPT !.fs = WriteFile(@, PathJoin(c.fix.path), c.fix.content),
                         !.applied = Append(@, c.fix),
                         !.written = Append(@, c.fix.path)],
      Tail(fixes), iteration)

\* applySafeFixes(buildId, projectDir, fixes, iteration) on an array.
ApplySafeFixes(fs, fixes, iteration) == ApplySafeFrom(NoSafeResult(fs), fixes, iteration)

(***************************************************************************)
(* applyFixes (ai.js), used by structure verification with                 *)
(* skipExisting = true.  One try block holds the whole loop: the first     *)
(* proposal that throws ends the batch with success = false.               *)
(***************************************************************************)
\* "skip", "write", "delete", "none" (an unknown action) or "throw".
PlainCheck(fs, fix, skipExisting) ==
  LET t == PathJoin(fix.path) IN
  IF fix.shape = "null" THEN "throw"
  ELSE IF fix.action \in {"create", "update"} THEN
    IF fix.shape = "nonStringPath" \/ fix.path = <<>> THEN "throw"
    ELSE IF skipExisting /\ fix.action = "create" /\ PathExists(fs, t) THEN "skip"
    ELSE IF ~CanWrite(fs, t) \/ fix.content.kind = "undefined" THEN "throw"
    ELSE "write"
  ELSE IF fix.action = "delete" THEN
    IF fix.shape = "nonStringPath" \/ fix.path = <<>> \/ ~IsFile(fs, t) THEN "throw"
    ELSE "delete"
  ELSE "none"

NoPlainResult(fs) ==
  [fs |-> fs, success |-> TRUE, appliedFixes |-> 0, skippedFiles |-> <<>>,
   written |-> <<>>, deleted |-> <<>>]

RECURSIVE ApplyFixesFrom(_, _, _)
ApplyFixesFrom(acc, fixes, skipExisting) ==
  IF fixes = <<>> \/ ~acc.success THEN acc
  ELSE LET fix == Head(fixes)
           c == PlainCheck(acc.fs, fix, skipExisting)
           t == PathJoin(fix.path) IN
    ApplyFixesFrom(
      CASE c = "throw" -> [acc EXCEPT !.success = FALSE]
        [] c = "skip" -> [acc EXCEPT !.skippedFiles = Append(@, fix.path)]
        [] c = "write" ->
             [acc EXCEPT !.fs = WriteFile(@, t, fix.content),
                         !.appliedFixes = @ + 1,
                         !.written = Append(@, fix.path)]
        [] c = "delete" ->
             [acc EXCEPT !.fs = RemoveFile(@, t),
                         !.appliedFixes = @ + 1,
                         !.deleted = Append(@, fix.path)]
        [] OTHER -> acc,
      Tail(fixes), skipExisting)

ApplyFixes(fs, fixes, skipExisting) == ApplyFixesFrom(NoPlainResult(fs), fixes, skipExisting)

(***************************************************************************)
(* structure verification (ai.js): reorganizeProjectStructure, the .rs     *)
(* filter and verifyAndFixStructure.                                       *)
(***************************************************************************)
ProgramSrc == <<"programs", "program", "src">>

\* lib.rs already sits at programs/<name>/src/lib.rs.
AlreadyInCorrectLocation(fs) ==
  \E f \in DOMAIN fs :
    Len(f) = 4 /\ f[1] = "programs" /\ f[3] = "src" /\ f[4] = "lib.rs"

\* The .rs files directly in projectDir, which the reorganization moves.
RootRsFiles(fs) == {f \in DOMAIN fs : Len(f) = 1 /\ SegExt(f[1]) = ".rs"}

\* fs.rename of every root .rs file into programs/program/src (the program
\* name falls back to "program"); a rename replaces a file at the target.
Reorganize(fs) ==
  IF ~IsFile(fs, <<"lib.rs">>) \/ fs[<<"lib.rs">>].empty \/ AlreadyInCorrectLocation(fs)
     \/ IsFile(fs, <<"programs">>) \/ IsFile(fs, <<"programs", "program">>)
     \/ IsFile(fs, ProgramSrc)
  THEN fs
  ELSE LET moved == RootRsFiles(fs)
           kept == (DOMAIN fs) \ (moved \cup {ProgramSrc \o f : f \in moved})
       IN [t \in kept \cup {ProgramSrc \o f : f \in moved} |->
             IF t \in kept THEN fs[t] ELSE fs[<<t[4]>>]]

(***************************************************************************)
(* The Advisor's answer to one call.  api = "error" is a call that threw   *)
(* (after its retries); form is the shape of the text: no JSON at all,     *)
(* a block that JSON.parse rejects, or JSON; fixesField is what the        *)
(* parsed object holds under "fixes"; saysCannotFix is whether the text    *)
(* matches /"cannotFix"\s*:\s*true/i.                                      *)
(***************************************************************************)
Response(api, form, field, fixes, says, analysis) ==
  [api |-> api, form |-> form, fixesField |-> field, fixes |-> fixes,
   saysCannotFix |-> says, analysis |-> analysis]

ApiError == Response("error", "text", "absent", <<>>, FALSE, "")

\* parseFixesFromAnalysis: parsed.fixes || [], and [] when nothing parses.
ParseFixesFromAnalysis(resp) ==
  IF resp.form = "json" /\ resp.fixesField = "array"
    THEN [kind |-> "array", items |-> resp.fixes]
  ELSE IF resp.form = "json" /\ resp.fixesField = "nonIterable"
    THEN [kind |-> "nonIterable", items |-> <<>>]
  ELSE [kind |-> "array", items |-> <<>>]

\* STEP 8 of verifyAndFixStructure: the proposals the filter keeps.
KeepsFix(fix) == ~(fix.path # <<>> /\ EndsWithRs(fix.path))

\* The filter callback throws on a null element and on a path without
\* endsWith.
FilterThrows(fixes) ==
  \E k \in 1..Len(fixes) : fixes[k].shape \in {"null", "nonStringPath"}

\* A structure pass that keeps every proposal.
VerifyFilterKeepsAll(fixes) == fixes

VerifyFilter(fixes) == SelectSeq(fixes, KeepsFix)

\* verifyAndFixStructure(buildId, projectDir) on the Advisor's answer resp.
VerifyAndFixStructure(fs, resp) ==
  LET fs1 == Reorganize(fs)
      parsed == ParseFixesFromAnalysis(resp)
      failed == [success |-> FALSE, fixes |-> <<>>, autoFixed |-> FALSE, fs |-> fs1,
                 written |-> <<>>, deleted |-> <<>>]
  IN
  IF resp.api = "error" \/ parsed.kind = "nonIterable" \/ FilterThrows(parsed.items)
  THEN failed
  ELSE LET fixes == VerifyFilter(parsed.items)
           r == IF fixes # <<>> THEN ApplyFixes(fs1, fixes, TRUE) ELSE NoPlainResult(fs1)
       IN [success |-> TRUE, fixes |-> fixes,
           autoFixed |-> (fixes # <<>> /\ r.success), fs |-> r.fs,
           written |-> r.written, deleted |-> r.deleted]

(***************************************************************************)
(* analyzeAndFixBuildFailure: the result of one repair call.               *)
(***************************************************************************)
AnalyzeAndFixBuildFailure(resp) ==
  IF resp.api = "error"
  THEN [success |-> FALSE, cannotFix |-> FALSE, fixes |-> [kind |-> "array", items |-> <<>>]]
  ELSE [success |-> TRUE, cannotFix |-> resp.saysCannotFix,
        fixes |-> IF resp.saysCannotFix THEN [kind |-> "array", items |-> <<>>]
                  ELSE ParseFixesFromAnalysis(resp)]

\* The for loop of analyzeAndFixBuildFailure makes at most MAX_RETRIES attempts.
MAX_RETRIES == 5

\* A catch clause that waits and retries after every rate-limit signal.
RetriesEveryRateLimit(isRateLimit, attempt) == isRateLimit

\* The catch clause waits and retries (`continue`) only after a rate-limit
\* signal on an attempt that is not the last.
Retries(isRateLimit, attempt) == isRateLimit /\ attempt < MAX_RETRIES - 1

\* error.headers['retry-after'] of a rejected attempt: absent (or empty), or
\* a text that parseInt turns into a number (parses) or into NaN.
RetryAfter(present, parses, n) == [present |-> present, parses |-> parses, n |-> n]

NoRetryAfter == RetryAfter(FALSE, FALSE, 0)

\* The wait before a retry when no usable hint came, in seconds.
DefaultWaitSec == 65

\* parseInt(header, 10) || 65: NaN and 0 give the default.
ParseIntOrDefault(h) == IF h.parses /\ h.n # 0 THEN h.n ELSE DefaultWaitSec

\* A wait that ignores the header.
WaitSecDefaultOnly(h) == DefaultWaitSec

\* Lines 751-754: waitSec = 65, and with a header
\* Math.max(parseInt(header, 10) || 65, 65).
WaitSec(h) ==
  IF h.present
  THEN (IF ParseIntOrDefault(h) > DefaultWaitSec THEN ParseIntOrDefault(h) ELSE DefaultWaitSec)
  ELSE DefaultWaitSec

\* No wait made yet.
NoWait == [made |-> FALSE, header |-> NoRetryAfter, waitSec |-> 0]

\* No analyzeAndFixBuildFailure call in progress.
IdleFx == [pc |-> "idle", attempt |-> 0, tries |-> <<>>, wait |-> NoWait, value |-> ApiError]

\* extractCannotFixReason: the parsed "analysis" field, else the text.
ExtractCannotFixReason(resp) ==
  IF resp.form = "json" /\ resp.analysis # "" THEN resp.analysis
  ELSE "AI determined this issue cannot be fixed without simplifying the code"

(***************************************************************************)
(* The sandbox (docker.js) and the post-check of smartBuild.               *)
(***************************************************************************)
LogSamples ==
  {"Finished release", "error[E0425]: cannot find value",
   "error: aborting due to previous error", "ERROR cargo build-sbf failed",
   "Failed to obtain package metadata", "can't find library",
   "note: aborting due to"}

\* detectBuildErrorsInLogs on a log that consists of one sample line.
DetectBuildErrorsInLogs(log) ==
  \/ log = "error[E0425]: cannot find value"
  \/ log = "error: aborting due to previous error"
  \/ log = "ERROR cargo build-sbf failed"
  \/ log = "Failed to obtain package metadata"
  \/ log = "can't find library"

IsSo(name) == name \in {"prog.so"}

\* verifyBuildArtifacts: some name in <outputDir>/target/deploy ends with .so
\* (an absent directory reads as no file).
VerifyBuildArtifacts(deploy) == \E f \in deploy : IsSo(f)

\* What one container run does: it exits with a code, having copied
\* `copied` into target/deploy, or the run fails (timeout, runtime error).
Run(kind, code, copied, log) ==
  [kind |-> kind, exitCode |-> code, copied |-> copied, log |-> log]

NoBuildResult ==
  [defined |-> FALSE, success |-> FALSE, exitCode |-> -1, error |-> "", logs |-> ""]

\* error.message of what the catch clause of executeAnchorBuild caught: the
\* rejection of the step that failed, or of the timeout promise (kind
\* "error").
FailureMessage(kind) ==
  CASE kind = "mkdir" -> "EACCES: permission denied, mkdir"
    [] kind = "create" -> "(HTTP code 404) no such image"
    [] kind = "putArchive" -> "(HTTP code 500) server error - putArchive"
    [] kind = "attach" -> "(HTTP code 500) server error - attach"
    [] kind = "start" -> "(HTTP code 500) server error - start"
    [] kind = "wait" -> "(HTTP code 500) server error - wait"
    [] OTHER -> "Build timeout exceeded"

\* The value executeAnchorBuild returns for a run (exitCode -1 and error ""
\* stand for undefined).
ExecuteAnchorBuild(run) ==
  IF run.kind = "exit"
  THEN [defined |-> TRUE, success |-> (run.exitCode = 0), exitCode |-> run.exitCode,
        error |-> "", logs |-> run.log]
  ELSE [defined |-> TRUE, success |-> FALSE, exitCode |-> -1,
        error |-> FailureMessage(run.kind), logs |-> run.log]

\* config.docker.networkDisabled (a literal of the configuration module).
NetworkDisabled == FALSE

\* HostConfig.NetworkMode of the container configuration.
NetworkMode(networkDisabled) == IF networkDisabled THEN "none" ELSE "default"

\* One call of executeAnchorBuild, step by step: container is whether the
\* local `container` holds a handle, state is the state of that container
\* in the runtime, failedAt names the step whose rejection was caught.
IdleDocker ==
  [pc |-> "idle", container |-> FALSE, state |-> "none", networkMode |-> "",
   failedAt |-> "", exitCode |-> -1, copied |-> {}, log |-> "",
   removeAttempts |-> 0, value |-> NoBuildResult]

\* A build phase that trusts the exit code alone.
PostCheckSkipped(r, deploy) == r

\* Lines 163-174: a zero exit code counts only with a .so and a clean log.
PostCheck(r, deploy) ==
  IF r.success /\ (~VerifyBuildArtifacts(deploy) \/ DetectBuildErrorsInLogs(r.logs))
  THEN [r EXCEPT !.success = FALSE,
                 !.error = IF ~VerifyBuildArtifacts(deploy)
                           THEN "Build produced no .so artifacts"
                           ELSE "Build logs contain errors despite exit code 0"]
  ELSE r

(***************************************************************************)
(* scanArtifacts (buildManager.js).  An output directory is its target     *)
(* directory (there or not) and the directories deploy, idl and types      *)
(* below it, each absent or with the names fs.readdir lists, in the order  *)
(* it lists them.                                                          *)
(***************************************************************************)
NoSubdir == [present |-> FALSE, files |-> <<>>]

EmptyOutDir == [target |-> FALSE, deploy |-> NoSubdir, idl |-> NoSubdir, types |-> NoSubdir]

\* The suffix that String.prototype.endsWith tests on an artifact name.
Suffix(name) ==
  CASE name \in {"prog.so"} -> ".so"
    [] name \in {"prog-keypair.json", "old-keypair.json", "prog.json"} -> ".json"
    [] name \in {"prog.ts"} -> ".ts"
    [] OTHER -> ""

\* fs.readdir(path.join(outputDir, 'target', sub)): the names, or a
\* rejection when the directory (or target) is not there.
Listing(d, sub) ==
  IF d.target /\ d[sub].present THEN [ok |-> TRUE, files |-> d[sub].files]
  ELSE [ok |-> FALSE, files |-> <<>>]

NoArtifacts == [programs |-> <<>>, idl |-> <<>>, types |-> <<>>, deploy |-> <<>>]

\* A scan that goes on with the lists of the scan before it.
KeptArtifacts(previous) == previous

\* Lines 206-211: the lists are local to the call and start empty.
FreshArtifacts(previous) == NoArtifacts

\* A scan in which a failed fs.readdir ends the whole walk.
AfterReaddirErrorStops == "stop"

\* Lines 236-238, 252-254 and 268-270: each fs.readdir has a try of its own
\* whose catch clause logs, and the walk goes on with the next directory.
AfterReaddirError == "next"

Artifact(name, type) == [name |-> name, type |-> type]

\* The entries pushed for the names of one listing that end with ext.
Pushed(files, ext, type) ==
  LET ends(f) == Suffix(f) = ext
      kept == SelectSeq(files, ends)
  IN [k \in 1..Len(kept) |-> Artifact(kept[k], type)]

\* scanArtifacts(outputDir); previous is the result of the call before it.
ScanArtifacts(d, previous) ==
  LET a0 == FreshArtifacts(previous)
      dep == Listing(d, "deploy")
      a1 == IF dep.ok
            THEN [a0 EXCEPT !.programs = @ \o Pushed(dep.files, ".so", "program"),
                            !.deploy = @ \o Pushed(dep.files, ".json", "deploy")]
            ELSE a0
      go1 == dep.ok \/ AfterReaddirError = "next"
      idl == Listing(d, "idl")
      a2 == IF go1 /\ idl.ok
            THEN [a1 EXCEPT !.idl = @ \o Pushed(idl.files, ".json", "idl")] ELSE a1
      go2 == go1 /\ (idl.ok \/ AfterReaddirError = "next")
      typ == Listing(d, "types")
  IN IF go2 /\ typ.ok
     THEN [a2 EXCEPT !.types = @ \o Pushed(typ.files, ".ts", "types")] ELSE a2

(***************************************************************************)
(* State.                                                                  *)
(***************************************************************************)
VARIABLES
  pc,               \* smartBuild: "loop" (at the for header), "verifying", "building", "done"
  iteration,        \* smartBuild: the loop variable
  phases,           \* smartBuild: the PhaseRecords pushed so far
  events,           \* smartBuild: the events handed to onProgress, each with the
                    \*   number of PhaseRecords at the moment it was emitted
  lastBuildResult,  \* smartBuild: the result of the last sandbox run
  result,           \* smartBuild: the returned value (outcome "threw": it rejected)
  projectFiles,     \* the source tree below projectDir
  deployFiles,      \* the file names in <outputDir>/target/deploy
  written,          \* history: the proposal paths written, with the loop index
  sandboxRuns,      \* history: every executeAnchorBuild call, with the loop index
  advice,           \* history: every answer of the Advisor, with the loop index
  safeCalls,        \* history: every applySafeFixes call, with what it returned
  structureCalls    \* history: every verifyAndFixStructure call, with what it did

sbVars ==
  <<pc, iteration, phases, events, lastBuildResult, result, projectFiles,
    deployFiles, written, sandboxRuns, advice, safeCalls, structureCalls>>

VARIABLES
  activeAgentBuilds,  \* routes/agent.js: the Map agentId -> {buildId, startedAt}
  builds,             \* buildManager.js: the Map of build records
  reqs,               \* the HTTP requests: where each handler stands, and its response
  deployFilesOf,      \* the keypair files in each build's <outputDir>/target/deploy
  statusLog           \* history: the status values each build record has shown

agVars == <<activeAgentBuilds, builds, reqs, deployFilesOf, statusLog>>

VARIABLES
  downloads           \* history: the files the artifact download route has served

VARIABLES
  dk,                 \* docker.js: the executeAnchorBuild call in progress
  dkCalls             \* history: the executeAnchorBuild calls that have returned

dkVars == <<dk, dkCalls>>

VARIABLES
  clock,              \* Date.now(), in periods of 30 minutes
  dirs,               \* the projectDir and the outputDir of each build: "none" (never
                      \*   made), "present" or "removed"
  sweep,              \* buildManager.js: the cleanupOldBuilds call in progress
  evictions           \* history: every builds.delete of the sweep

swVars == <<clock, dirs, sweep, evictions>>

VARIABLES
  outDir,             \* one outputDir: its target directory and the three below it
  scans               \* history: every scanArtifacts call on it

scVars == <<outDir, scans>>

VARIABLES
  fx,                 \* the analyzeAndFixBuildFailure call in progress
  fxCalls             \* history: the analyzeAndFixBuildFailure calls that have returned

fxVars == <<fx, fxCalls>>

vars == <<sbVars, agVars, downloads, dkVars, swVars, scVars, fxVars>>

(***************************************************************************)
(* smartBuild (smartBuild.js).                                             *)
(***************************************************************************)
\* A loop that runs once more than configured.
LoopGuardInclusive(i) == i <= MAX_ITERATIONS

\* The for header: iteration < MAX_ITERATIONS.
LoopGuard(i) == i < MAX_ITERATIONS

\* A loop that repeats the structure pass at index 1.
IsStructurePassTwice(i) == i <= 1

\* `if (iteration === 0)`: analysis and structure verification; the else
\* branch is the fix phase.
IsStructurePass(i) == i = 0

\* A repair request that reports every failure as "Build failed".
ErrorMsgGeneric(r) == "Build failed"

\* Line 71: lastBuildResult.error || 'Build failed'.
ErrorMsg(r) == IF r.error # "" THEN r.error ELSE "Build failed"

\* One answer of the Advisor: the loop index, the error message the request
\* carried ("" for the structure request) and the answer.
Heard(i, resp, errorMsg) == [iteration |-> i, resp |-> resp, errorMsg |-> errorMsg]

PhaseRecord(phase, i, res) == [phase |-> phase, iteration |-> i, result |-> res]

\* progress(phase, iteration, ...): one smart_build_phase event.
Progress(phase, i, n) ==
  [type |-> "smart_build_phase", phase |-> phase, iteration |-> i, nphases |-> n]

\* The onLogUpdate callback of the build phase: one build_log event.
BuildLog(i, n) == [type |-> "build_log", phase |-> "building", iteration |-> i, nphases |-> n]

NoResult ==
  [outcome |-> "none", success |-> FALSE, iterations |-> 0, cannotFix |-> FALSE,
   cannotFixReason |-> ""]

\* Lines 179-187.
SuccessResult(i) ==
  [outcome |-> "success", success |-> TRUE, iterations |-> i + 1, cannotFix |-> FALSE,
   cannotFixReason |-> ""]

\* Lines 93-101.
CannotFixResult(i, reason) ==
  [outcome |-> "cannot_fix", success |-> FALSE, iterations |-> i + 1, cannotFix |-> TRUE,
   cannotFixReason |-> reason]

\* Lines 208-216.
ExhaustedResult ==
  [outcome |-> "exhausted", success |-> FALSE, iterations |-> MAX_ITERATIONS,
   cannotFix |-> TRUE,
   cannotFixReason |-> "Exhausted all retry attempts without successful compilation"]

\* smartBuild rejects: an exception left the loop.
Thrown ==
  [outcome |-> "threw", success |-> FALSE, iterations |-> 0, cannotFix |-> FALSE,
   cannotFixReason |-> ""]

\* The branch of lines 78-122 that a repair result takes.
FixBranch(fixResult) ==
  IF ~fixResult.success THEN "failed"
  ELSE IF fixResult.cannotFix THEN "cannot_fix"
  ELSE IF fixResult.fixes.kind = "array" /\ Len(fixResult.fixes.items) = 0 THEN "no_fixes"
  ELSE "apply"

\* A fix phase without the `continue` of line 84.
AfterFixWithoutContinue(branch) ==
  CASE branch = "cannot_fix" -> "done"
    [] OTHER -> "building"

\* A fix phase without the `return` of line 93.
AfterFixWithoutReturn(branch) ==
  CASE branch = "failed" -> "loop"
    [] OTHER -> "building"

\* Where smartBuild goes after the fix phase: `continue` (line 84), `return`
\* (line 93) or on to the build phase.
AfterFix(branch) ==
  CASE branch = "failed" -> "loop"
    [] branch = "cannot_fix" -> "done"
    [] OTHER -> "building"

\* applySafeFixes as smartBuild calls it (line 109): for..of throws on a
\* fixes value that is not iterable.
CallApplySafeFixes(fs, fixes, i) ==
  IF fixes.kind = "nonIterable" THEN [NoSafeResult(fs) EXCEPT !.threw = TRUE]
  ELSE ApplySafeFixes(fs, fixes.items, i)

\* One verifyAndFixStructure call (line 54): the source tree after the
\* reorganization, the proposals parsed from the answer, the proposals the
\* filter kept and what applyFixes did with them.
StructureCall(fs, resp, v) ==
  [before |-> Reorganize(fs), parsed |-> ParseFixesFromAnalysis(resp).items,
   success |-> v.success, fixes |-> v.fixes, autoFixed |-> v.autoFixed,
   written |-> v.written, deleted |-> v.deleted, after |-> v.fs]

\* One applySafeFixes call (line 109): the loop index, the source tree before
\* it, the fixes value it was given and what it returned (threw: it rejected).
SafeCall(i, before, fixes, safe) ==
  [iteration |-> i, before |-> before, iterable |-> fixes.kind = "array",
   fixes |-> fixes.items, applied |-> safe.applied, rejected |-> safe.rejected, threw |-> safe.threw,
   after |-> safe.fs]

\* A catch clause that ends smartBuild when deepCodeAnalysis rejects.
AfterAnalyzeAborts(ok) == IF ok THEN "verifying" ELSE "done"

\* Lines 45-52: the catch clause does not rethrow, so the structure phase
\* follows the analysis whether it resolved or rejected.
AfterAnalyze(ok) == "verifying"

\* Iteration 0, lines 39-49: deepCodeAnalysis resolves (ok) or rejects.
Analyze(ok) ==
  /\ pc = "loop" /\ LoopGuard(iteration) /\ IsStructurePass(iteration)
  /\ phases' = Append(phases, PhaseRecord("analyzing", iteration, IF ok THEN "success" ELSE "failed"))
  /\ events' = events \o <<Progress("analyzing", iteration, Len(phases))>>
                 \o (IF ok THEN <<Progress("analyzing", iteration, Len(phases) + 1)>> ELSE <<>>)
  /\ pc' = AfterAnalyze(ok)
  /\ UNCHANGED <<iteration, lastBuildResult, result, projectFiles, deployFiles, written,
                 sandboxRuns, advice, safeCalls, structureCalls>>

\* A structure phase that returns from smartBuild when the verification fails.
AfterVerifyReturns(success) == IF success THEN "building" ELSE "done"

\* Lines 52-66 and 125: neither branch of the try statement returns or
\* continues, so the build phase follows the structure phase.
AfterVerify(success) == "building"

\* Iteration 0, lines 52-66: verifyAndFixStructure on the Advisor's answer.
Verify(resp) ==
  /\ pc = "verifying"
  /\ \E v \in {VerifyAndFixStructure(projectFiles, resp)} :
       /\ projectFiles' = v.fs
       /\ written' = written \o [k \in 1..Len(v.written) |->
                                   [iteration |-> iteration, path |-> v.written[k]]]
       /\ phases' = Append(phases, PhaseRecord("verifying", iteration,
                                      IF v.success THEN "fixed" ELSE "failed"))
       /\ structureCalls' = Append(structureCalls, StructureCall(projectFiles, resp, v))
  /\ events' = events \o <<Progress("verifying", iteration, Len(phases)),
                           Progress("verifying", iteration, Len(phases) + 1)>>
  /\ advice' = Append(advice, Heard(iteration, resp, ""))
  /\ pc' = AfterVerify(VerifyAndFixStructure(projectFiles, resp).success)
  /\ UNCHANGED <<iteration, lastBuildResult, result, deployFiles, sandboxRuns, safeCalls>>

\* Iteration >= 1, lines 67-123: the repair call and what follows it.
FixStep(resp) ==
  /\ pc = "loop" /\ LoopGuard(iteration) /\ ~IsStructurePass(iteration)
  /\ advice' = Append(advice, Heard(iteration, resp, ErrorMsg(lastBuildResult)))
  /\ LET fixResult == AnalyzeAndFixBuildFailure(resp)
         branch == FixBranch(fixResult)
         safe == IF branch = "apply"
                 THEN CallApplySafeFixes(projectFiles, fixResult.fixes, iteration)
                 ELSE NoSafeResult(projectFiles)
         start == Progress("fixing", iteration, Len(phases))
     IN
     /\ safeCalls' = IF branch = "apply" /\ lastBuildResult.defined
                     THEN Append(safeCalls, SafeCall(iteration, projectFiles,
                                                     fixResult.fixes, safe))
                     ELSE safeCalls
     /\ IF ~lastBuildResult.defined \/ safe.threw
        THEN /\ pc' = "done"
             /\ result' = Thrown
             /\ projectFiles' = safe.fs
             /\ written' = written \o [k \in 1..Len(safe.written) |->
                                         [iteration |-> iteration, path |-> safe.written[k]]]
             /\ events' = Append(events, start)
             /\ UNCHANGED <<iteration, phases>>
        ELSE /\ phases' = Append(phases, PhaseRecord("fixing", iteration,
                             CASE branch = "failed" -> "failed"
                               [] branch = "cannot_fix" -> "cannot_fix"
                               [] branch = "no_fixes" -> "no_fixes"
                               [] OTHER -> "fixed"))
             /\ events' = events \o <<start,
                             Progress(IF branch = "cannot_fix" THEN "complete" ELSE "fixing",
                                      iteration, Len(phases) + 1)>>
             /\ projectFiles' = safe.fs
             /\ written' = written \o [k \in 1..Len(safe.written) |->
                                         [iteration |-> iteration, path |-> safe.written[k]]]
             /\ pc' = AfterFix(branch)
             /\ iteration' = IF AfterFix(branch) = "loop" THEN iteration + 1 ELSE iteration
             /\ result' = IF AfterFix(branch) = "done"
                          THEN CannotFixResult(iteration, ExtractCannotFixReason(resp))
                          ELSE result
  /\ UNCHANGED <<lastBuildResult, deployFiles, sandboxRuns, structureCalls>>

\* Lines 125-198: the build phase with one container run.
Build(run) ==
  /\ pc = "building"
  /\ LET raw == ExecuteAnchorBuild(run)
         deploy == deployFiles \cup run.copied
         checked == PostCheck(raw, deploy)
         n == Len(phases)
         log == IF run.kind = "exit" THEN <<BuildLog(iteration, n)>> ELSE <<>>
     IN
     /\ sandboxRuns' = Append(sandboxRuns,
                           [iteration |-> iteration, run |-> run, deploy |-> deploy])
     /\ deployFiles' = deploy
     /\ lastBuildResult' = checked
     /\ phases' = Append(phases, PhaseRecord("building", iteration,
                                   IF raw.success THEN "success" ELSE "failed"))
     /\ IF checked.success
        THEN /\ events' = events \o <<Progress("building", iteration, n)>> \o log
                            \o <<Progress("complete", iteration, n + 1)>>
             /\ result' = SuccessResult(iteration)
             /\ pc' = "done"
             /\ UNCHANGED iteration
        ELSE /\ events' = events \o <<Progress("building", iteration, n)>> \o log
                            \o <<Progress("building", iteration, n + 1)>>
             /\ iteration' = iteration + 1
             /\ pc' = "loop"
             /\ UNCHANGED result
  /\ UNCHANGED <<projectFiles, written, advice, safeCalls, structureCalls>>

\* Lines 201-216: the loop ran out.
Exhausted ==
  /\ pc = "loop" /\ ~LoopGuard(iteration)
  /\ events' = Append(events, Progress("complete", MAX_ITERATIONS - 1, Len(phases)))
  /\ result' = ExhaustedResult
  /\ pc' = "done"
  /\ UNCHANGED <<iteration, phases, lastBuildResult, projectFiles, deployFiles, written,
                 sandboxRuns, advice, safeCalls, structureCalls>>

(***************************************************************************)
(* Inputs of the smart-build specification.                                *)
(***************************************************************************)
Lib == Text(2, 1, 0, 1, 12)
LibGrown == Text(2, 1, 0, 1, 13)
LibShrunk == Text(1, 1, 0, 1, 12)
Toml == Text(0, 0, 0, 0, 5)

InitialProjects ==
  { (<<"src", "lib.rs">> :> Lib),
    (<<"lib.rs">> :> Lib) @@ (<<"Cargo.toml">> :> Toml) }

Json(fixes) == Response("ok", "json", "array", fixes, FALSE, "summary")

\* What the Advisor may answer to the structure request of iteration 0.
VerifyResponses ==
  { ApiError,
    Response("ok", "text", "absent", <<>>, FALSE, ""),
    Json(<<Fix("create", <<"Cargo.toml">>, Toml)>>),
    Json(<<Fix("create", <<"src", "lib.rs">>, LibShrunk), Fix("update", <<"notes.md">>, Toml)>>),
    Json(<<NullFix>>) }

\* What the Advisor may answer to a repair request of iteration >= 1.
FixResponses ==
  { ApiError,
    Response("ok", "json", "array", <<Fix("update", <<"Cargo.toml">>, Toml)>>, TRUE, "needs a redesign"),
    Response("ok", "invalid_json", "absent", <<>>, TRUE, ""),
    Response("ok", "invalid_json", "absent", <<>>, FALSE, ""),
    Json(<<>>),
    Json(<<Fix("delete", <<"src", "lib.rs">>, LibGrown), Fix("create", <<"lib.rs">>, Lib)>>),
    Json(<<Fix("update", <<"src", "lib.rs">>, LibShrunk), Fix("update", <<"Cargo.toml">>, Toml),
           Fix("update", <<"src", "lib.rs">>, LibGrown)>>),
    Json(<<NullFix>>),
    Response("ok", "json", "nonIterable", <<>>, FALSE, "summary") }

\* What one container run may do.  The first run draws its log from every
\* sample and may fail to run at all (a timeout, a runtime error); a later
\* run draws its log from the first two samples.
SandboxRuns(i) ==
  { Run("exit", 0, {"prog.so", "prog-keypair.json"}, l) :
      l \in IF i = 0 THEN LogSamples
            ELSE {"Finished release", "error[E0425]: cannot find value"} }
  \cup { Run("exit", 0, {}, "Finished release"),
         Run("exit", 1, {}, "error[E0425]: cannot find value") }
  \cup (IF i = 0 THEN {Run("error", -1, {}, "")} ELSE {})

(***************************************************************************)
(* The build routes (routes/agent.js, the server's /compile routes) and    *)
(* the build records (buildManager.js).  A handler runs without            *)
(* interruption up to its next await; each action is one such stretch.     *)
(***************************************************************************)
\* How many requests a run of the service sees.
MaxRequests == 2

Requests == 1..MaxRequests

Agents == {"a1", "a2"}

\* The build created by request r gets the id r (uuidv4: a fresh id).
BuildIds == Requests

NoBuild == 0

\* activeAgentBuilds.get(agentId) of an agent without an entry.
NoEntry == [buildId |-> NoBuild, startedAt |-> 0]

AbsentBuild == [status |-> "absent", agentId |-> "none", updatedAt |-> 0]

IdleRequest ==
  [pc |-> "idle", route |-> "none", agent |-> "none", buildId |-> NoBuild, stale |-> FALSE,
   success |-> FALSE, http |-> 0, activeBuildId |-> NoBuild, startedAt |-> 0,
   keypairs |-> {},
   produced |-> {}, delivered |-> FALSE, purged |-> FALSE, left |-> {}]

\* A lookup that finds no entry for any agent.
getActiveAgentBuildNone(agentId) == NoEntry

getActiveAgentBuild(agentId) == activeAgentBuilds[agentId]

\* A release that leaves the entry in the Map.
clearActiveAgentBuildKeeps(m, agentId) == m

\* activeAgentBuilds.set(agentId, {buildId, startedAt: Date.now()}); the
\* moment is named by the request that takes the lock.
setActiveAgentBuild(m, agentId, buildId, now) ==
  [m EXCEPT ![agentId] = [buildId |-> buildId, startedAt |-> now]]

clearActiveAgentBuild(m, agentId) == [m EXCEPT ![agentId] = NoEntry]

\* The 409 of the per-agent check: it names the active build and its start.
Conflict(req, activeBuild) ==
  [req EXCEPT !.pc = "done", !.http = 409, !.activeBuildId = activeBuild.buildId,
              !.startedAt = activeBuild.startedAt]

\* config.cleanup.cleanupAfterMinutes, in periods of 30 minutes.
CleanupAfter == 2

NoDirs == [project |-> "none", output |-> "none"]

\* No cleanupOldBuilds call is running; cutoff is the cutoffTime of the last
\* call.
IdleSweep == [pc |-> "idle", cutoff |-> 0, cur |-> NoBuild]

\* builds.set(buildId, {status: 'ready', updatedAt: new Date(), ...metadata}).
NewBuild(bs, b, agentId, now) ==
  [bs EXCEPT ![b] = [status |-> "ready", agentId |-> agentId, updatedAt |-> now]]

\* updateBuildStatus: a record that exists is replaced by a copy with the
\* new status.
updateBuildStatus(bs, b, status, now) ==
  IF bs[b].status = "absent" THEN bs
  ELSE [bs EXCEPT ![b].status = status, ![b].updatedAt = now]

\* The record object a /compile handler holds is no longer the one in the
\* Map once updateBuildStatus has replaced it.
Replaced(rq, bs, b) ==
  [q \in Requests |->
     IF rq[q].pc = "sb_running" /\ rq[q].buildId = b /\ bs[b].status # "absent"
     THEN [rq[q] EXCEPT !.stale = TRUE] ELSE rq[q]]

\* The status log after the Map has become bs.
Observed(log, bs) ==
  [b \in BuildIds |->
     IF bs[b].status # "absent" /\ (log[b] = <<>> \/ log[b][Len(log[b])] # bs[b].status)
     THEN Append(log[b], bs[b].status) ELSE log[b]]

\* Requests arrive in the order of their numbers.
Arrives(r) == reqs[r].pc = "idle" /\ \A q \in 1..(r - 1) : reqs[q].pc # "idle"

Answer(req, code) == [req EXCEPT !.pc = "done", !.http = code]

\* POST /build up to its first await (part_006 lines 400-468).
PostBuild(r, agentId, github, valid) ==
  /\ Arrives(r)
  /\ LET req == [IdleRequest EXCEPT !.route = IF github THEN "build_github" ELSE "build",
                                    !.agent = agentId]
     IN
     IF getActiveAgentBuild(agentId) # NoEntry
     THEN /\ reqs' = [reqs EXCEPT ![r] = Conflict(req, getActiveAgentBuild(agentId))]
          /\ UNCHANGED <<builds, statusLog>>
     ELSE IF ~valid
     THEN /\ reqs' = [reqs EXCEPT ![r] = Answer(req, 400)]
          /\ UNCHANGED <<builds, statusLog>>
     ELSE /\ reqs' = [reqs EXCEPT ![r] = [req EXCEPT !.pc = "creating", !.buildId = r]]
          /\ builds' = IF github THEN NewBuild(builds, r, agentId, clock) ELSE builds
          /\ statusLog' = Observed(statusLog, builds')
  /\ UNCHANGED <<activeAgentBuilds, deployFilesOf>>

\* createProjectFromFiles or startBuildFromGithub settles; on success the
\* handler takes the lock and calls the build (lines 460-481), on failure
\* its catch clause answers 500 (lines 578-583).
ProjectCreated(r, ok) ==
  /\ reqs[r].pc = "creating"
  /\ LET b == reqs[r].buildId
         github == reqs[r].route = "build_github"
         bs == IF ~github THEN (IF ok THEN NewBuild(builds, b, reqs[r].agent, clock) ELSE builds)
               ELSE updateBuildStatus(builds, b, IF ok THEN "ready" ELSE "failed", clock)
         rq == IF github THEN Replaced(reqs, builds, b) ELSE reqs
     IN
     /\ builds' = bs
     /\ statusLog' = Observed(statusLog, bs)
     /\ IF ok
        THEN /\ activeAgentBuilds' = setActiveAgentBuild(activeAgentBuilds, reqs[r].agent, b, r)
             /\ reqs' = [rq EXCEPT ![r].pc = "building"]
        ELSE /\ activeAgentBuilds' = clearActiveAgentBuild(activeAgentBuilds, reqs[r].agent)
             /\ reqs' = [rq EXCEPT ![r] = Answer(rq[r], 500)]
  /\ UNCHANGED deployFilesOf

\* POST /project/:buildId/build up to the call of the build (lines 594-635).
PostProjectBuild(r, agentId, b) ==
  /\ Arrives(r)
  /\ LET req == [IdleRequest EXCEPT !.route = "project_build", !.agent = agentId,
                                    !.buildId = b]
     IN
     IF getActiveAgentBuild(agentId) # NoEntry
     THEN /\ reqs' = [reqs EXCEPT ![r] = Conflict(req, getActiveAgentBuild(agentId))]
          /\ UNCHANGED activeAgentBuilds
     ELSE IF builds[b].status = "absent"
     THEN /\ reqs' = [reqs EXCEPT ![r] = Answer(req, 404)]
          /\ UNCHANGED activeAgentBuilds
     ELSE IF builds[b].status = "running"
     THEN /\ reqs' = [reqs EXCEPT ![r] = Answer(req, 409)]
          /\ UNCHANGED activeAgentBuilds
     ELSE /\ reqs' = [reqs EXCEPT ![r] = [req EXCEPT !.pc = "building"]]
          /\ activeAgentBuilds' = setActiveAgentBuild(activeAgentBuilds, agentId, b, r)
  /\ UNCHANGED <<builds, deployFilesOf, statusLog>>

\* The names in a deploy directory that end with -keypair.json.
KeypairFiles == {"prog-keypair.json", "old-keypair.json"}

\* JSON.parse and Keypair.fromSecretKey accept the file's content.
ParsesAsKeypair(file) == file = "prog-keypair.json"

\* The build of an agent route settles (lines 477-504 and 631-655): the
\* finally clause releases the lock; a result sets the record's status, an
\* exception goes to the catch clause.  A successful build leaves its
\* keypair files in the deploy directory; produced is what the directory
\* holds at that moment.
BuildReturns(r, outcome, kp) ==
  /\ reqs[r].pc = "building"
  /\ LET b == reqs[r].buildId
         bs == IF outcome = "throws" THEN builds
               ELSE updateBuildStatus(builds, b, IF outcome = "success" THEN "success" ELSE "failed",
                                      clock)
         rq == IF outcome = "throws" THEN reqs ELSE Replaced(reqs, builds, b)
     IN
     /\ activeAgentBuilds' = clearActiveAgentBuild(activeAgentBuilds, reqs[r].agent)
     /\ builds' = bs
     /\ statusLog' = Observed(statusLog, bs)
     /\ deployFilesOf' = IF outcome = "success"
                         THEN [deployFilesOf EXCEPT ![b] = @ \cup kp] ELSE deployFilesOf
     /\ reqs' = IF outcome = "throws" THEN [rq EXCEPT ![r] = Answer(rq[r], 500)]
                ELSE [rq EXCEPT ![r].pc = "responding", ![r].success = (outcome = "success"),
                                ![r].produced = IF outcome = "success"
                                                THEN (deployFilesOf[b] \cup kp) \cap KeypairFiles
                                                ELSE {}]

\* extractKeypairs(outputDir): one record for every *-keypair.json file of
\* the deploy directory that parses; the others are skipped.
extractKeypairs(files) == {f \in files \cap KeypairFiles : ParsesAsKeypair(f)}

\* A handler that goes on to the deletion only when its response got through.
AfterResponseIfDelivered(kp, delivered) ==
  IF kp # {} /\ delivered THEN "deleting" ELSE "done"

\* After res.json(response): `if (keypairs.length > 0) await
\* deleteKeypairFiles(...)`; the handler does not learn whether the response
\* got through.
AfterResponse(kp, delivered) == IF kp # {} THEN "deleting" ELSE "done"

\* extractKeypairs and res.json (lines 541-572 and 688-717); delivered is
\* whether the transport gets the response to the client.
Respond(r, delivered) ==
  /\ reqs[r].pc = "responding"
  /\ LET kp == IF reqs[r].success THEN extractKeypairs(deployFilesOf[reqs[r].buildId]) ELSE {}
     IN reqs' = [reqs EXCEPT ![r].http = 200, ![r].keypairs = kp,
                             ![r].delivered = delivered,
                             ![r].pc = AfterResponse(kp, delivered)]
  /\ UNCHANGED <<activeAgentBuilds, builds, deployFilesOf, statusLog>>

\* deleteKeypairFiles after the response (lines 575-577 and 720-722): every
\* record's file is unlinked; left is what remains of them when the handler
\* ends.
DeleteKeypairFiles(r) ==
  /\ reqs[r].pc = "deleting"
  /\ deployFilesOf' = [deployFilesOf EXCEPT ![reqs[r].buildId] = @ \ reqs[r].keypairs]
  /\ reqs' = [reqs EXCEPT ![r].pc = "done", ![r].purged = TRUE,
                          ![r].left = deployFilesOf'[reqs[r].buildId] \cap reqs[r].keypairs]
  /\ UNCHANGED <<activeAgentBuilds, builds, statusLog>>

\* GET /compile/:buildId/artifacts/download/deploy/:filename (part_007 lines
\* 307-340): for a build with status success, scanArtifacts lists every
\* .json file of the deploy directory and res.download sends the one asked
\* for.
DownloadArtifact(b, file) ==
  /\ builds[b].status = "success"
  /\ file \in deployFilesOf[b]
  /\ [build |-> b, file |-> file] \notin downloads
  /\ downloads' = downloads \cup {[build |-> b, file |-> file]}
  /\ UNCHANGED <<sbVars, agVars, dkVars, swVars, scVars, fxVars>>

\* POST /compile/:buildId/smart-build (part_007 lines 568-646): the handler
\* sets the status of the record it holds and answers 202.
PostSmartBuild(r, b) ==
  /\ Arrives(r)
  /\ LET req == [IdleRequest EXCEPT !.route = "smart_build", !.buildId = b] IN
     IF builds[b].status = "absent"
     THEN /\ reqs' = [reqs EXCEPT ![r] = Answer(req, 404)]
          /\ UNCHANGED <<builds, statusLog>>
     ELSE IF builds[b].status = "running"
     THEN /\ reqs' = [reqs EXCEPT ![r] = Answer(req, 409)]
          /\ UNCHANGED <<builds, statusLog>>
     ELSE /\ reqs' = [reqs EXCEPT ![r] = [req EXCEPT !.pc = "sb_running", !.http = 202]]
          /\ builds' = [builds EXCEPT ![b].status = "running", ![b].updatedAt = clock]
          /\ statusLog' = Observed(statusLog, builds')
  /\ UNCHANGED <<activeAgentBuilds, deployFilesOf>>

\* POST /compile/:buildId/restart (part_007 lines 652-741): the handler
\* tests only that the record exists, sets its status and starts
\* executeAnchorBuild without awaiting it.
PostRestart(r, b) ==
  /\ Arrives(r)
  /\ LET req == [IdleRequest EXCEPT !.route = "restart", !.buildId = b] IN
     IF builds[b].status = "absent"
     THEN /\ reqs' = [reqs EXCEPT ![r] = Answer(req, 404)]
          /\ UNCHANGED <<builds, statusLog>>
     ELSE /\ reqs' = [reqs EXCEPT ![r] = [req EXCEPT !.pc = "sb_running", !.http = 200]]
          /\ builds' = [builds EXCEPT ![b].status = "running", ![b].updatedAt = clock]
          /\ statusLog' = Observed(statusLog, builds')
  /\ UNCHANGED <<activeAgentBuilds, deployFilesOf>>

\* The .then and .catch of the smartBuild call (lines 612-636) or of the
\* executeAnchorBuild call of a restart (lines 714-733): they write to the
\* record object the handler holds.
SmartBuildSettles(r, outcome) ==
  /\ reqs[r].pc = "sb_running"
  /\ builds' = IF reqs[r].stale THEN builds
               ELSE [builds EXCEPT ![reqs[r].buildId].status =
                                     IF outcome = "success" THEN "success" ELSE "failed",
                                   ![reqs[r].buildId].updatedAt = clock]
  /\ statusLog' = Observed(statusLog, builds')
  /\ reqs' = [reqs EXCEPT ![r].pc = "done", ![r].success = (outcome = "success")]
  /\ UNCHANGED <<activeAgentBuilds, deployFilesOf>>

IdleAgent ==
  /\ activeAgentBuilds = [a \in Agents |-> NoEntry]
  /\ builds = [b \in BuildIds |-> AbsentBuild]
  /\ reqs = [r \in Requests |-> IdleRequest]
  /\ deployFilesOf = [b \in BuildIds |-> {}]
  /\ statusLog = [b \in BuildIds |-> <<>>]
  /\ downloads = {}
  /\ dk = IdleDocker
  /\ dkCalls = <<>>
  /\ clock = 0
  /\ dirs = [b \in BuildIds |-> NoDirs]
  /\ sweep = IdleSweep
  /\ evictions = <<>>
  /\ outDir = EmptyOutDir
  /\ scans = <<>>
  /\ fx = IdleFx
  /\ fxCalls = <<>>

IdleSB ==
  /\ pc = "loop"
  /\ iteration = 0
  /\ phases = <<>>
  /\ events = <<>>
  /\ lastBuildResult = NoBuildResult
  /\ result = NoResult
  /\ projectFiles = (<<"src", "lib.rs">> :> Lib)
  /\ deployFiles = {}
  /\ written = <<>>
  /\ sandboxRuns = <<>>
  /\ advice = <<>>
  /\ safeCalls = <<>>
  /\ structureCalls = <<>>

InitAgent == IdleSB /\ IdleAgent

NextAgent ==
  /\ \/ \E r \in Requests, a \in Agents, github \in BOOLEAN, valid \in BOOLEAN :
          PostBuild(r, a, github, valid)
     \/ \E r \in Requests, ok \in BOOLEAN : ProjectCreated(r, ok)
     \/ \E r \in Requests, a \in Agents, b \in BuildIds : PostProjectBuild(r, a, b)
     \/ \E r \in Requests, outcome \in {"success", "failed", "throws"},
           kp \in SUBSET {"prog-keypair.json"} : BuildReturns(r, outcome, kp)
     \/ \E r \in Requests : Respond(r, TRUE)
     \/ \E r \in Requests : DeleteKeypairFiles(r)
     \/ \E r \in Requests, b \in BuildIds : PostSmartBuild(r, b)
     \/ \E r \in Requests, b \in BuildIds : PostRestart(r, b)
     \/ \E r \in Requests, outcome \in {"success", "failed", "throws"} :
          SmartBuildSettles(r, outcome)
  /\ UNCHANGED <<sbVars, downloads, dkVars, swVars, scVars, fxVars>>

SpecAgent == InitAgent /\ [][NextAgent]_vars

(***************************************************************************)
(* The agent build routes with inline files together with the artifact    *)
(* download route: what becomes of the keypair files of a build.           *)
(***************************************************************************)
NextSecrets ==
  \/ /\ \/ \E r \in Requests, a \in Agents : PostBuild(r, a, FALSE, TRUE)
        \/ \E r \in Requests : ProjectCreated(r, TRUE)
        \/ \E r \in Requests, a \in Agents, b \in BuildIds : PostProjectBuild(r, a, b)
        \/ \E r \in Requests : BuildReturns(r, "failed", {})
        \/ \E r \in Requests, kp \in {{"prog-keypair.json"}, KeypairFiles} :
             BuildReturns(r, "success", kp)
        \/ \E r \in Requests, delivered \in BOOLEAN : Respond(r, delivered)
        \/ \E r \in Requests : DeleteKeypairFiles(r)
     /\ UNCHANGED <<sbVars, downloads, dkVars, swVars, scVars, fxVars>>
  \/ \E b \in BuildIds : DownloadArtifact(b, "prog-keypair.json")

SpecSecrets == InitAgent /\ [][NextSecrets]_vars

InitSB ==
  /\ pc = "loop"
  /\ iteration = 0
  /\ phases = <<>>
  /\ events = <<>>
  /\ lastBuildResult = NoBuildResult
  /\ result = NoResult
  /\ projectFiles \in InitialProjects
  /\ deployFiles = {}
  /\ written = <<>>
  /\ sandboxRuns = <<>>
  /\ advice = <<>>
  /\ safeCalls = <<>>
  /\ structureCalls = <<>>
  /\ IdleAgent

NextSB ==
  /\ \/ \E ok \in BOOLEAN : Analyze(ok)
     \/ \E resp \in VerifyResponses : Verify(resp)
     \/ \E resp \in FixResponses : FixStep(resp)
     \/ \E run \in SandboxRuns(iteration) : Build(run)
     \/ Exhausted
  /\ UNCHANGED <<agVars, downloads, dkVars, swVars, scVars, fxVars>>

Init == InitSB

Next == NextSB

Spec == Init /\ [][Next]_vars

(***************************************************************************)
(* Structure verification on its own: the state after the analysis of      *)
(* iteration 0, and the Advisor's proposals drawn from every short path.   *)
(***************************************************************************)
\* The longest batch of proposals the Advisor returns here.
MaxBatch == 2

WidePaths ==
  {<<>>, <<"src", "lib.rs", ".">>}
  \cup {<<a>> : a \in Segments} \cup {<<a, b>> : a \in Segments, b \in Segments}

WideFixes ==
  {Fix("update", p, LibShrunk) : p \in WidePaths}
  \cup {Fix("create", p, LibShrunk) :
          p \in {<<"lib.rs">>, <<"src", "lib.rs">>, <<"Cargo.toml">>, <<"notes.md">>}}
  \cup {Fix("delete", <<"src", "lib.rs">>, LibShrunk), Fix("delete", <<"Cargo.toml">>, LibShrunk),
         Fix("update", <<"Cargo.toml">>, Undefined), NullFix,
         NonStringPathFix("update", LibShrunk)}

WideBatches == UNION {[1..n -> WideFixes] : n \in 1..MaxBatch}

InitStructure ==
  /\ pc = "verifying"
  /\ iteration = 0
  /\ phases = <<PhaseRecord("analyzing", 0, "success")>>
  /\ events = <<Progress("analyzing", 0, 0), Progress("analyzing", 0, 1)>>
  /\ lastBuildResult = NoBuildResult
  /\ result = NoResult
  /\ projectFiles \in InitialProjects
  /\ deployFiles = {}
  /\ written = <<>>
  /\ sandboxRuns = <<>>
  /\ advice = <<>>
  /\ safeCalls = <<>>
  /\ structureCalls = <<>>
  /\ IdleAgent

NextStructure ==
  /\ pc = "verifying"
  /\ \E fixes \in WideBatches : Verify(Json(fixes))
  /\ UNCHANGED <<agVars, downloads, dkVars, swVars, scVars, fxVars>>

SpecStructure == InitStructure /\ [][NextStructure]_vars

(***************************************************************************)
(* The first repair pass on its own: iteration 0 fails to build, then the  *)
(* Advisor's repair proposals are drawn from the proposals that the        *)
(* checks of applySafeFixes tell apart.                                    *)
(***************************************************************************)
SafeFixes ==
  {Fix(a, p, c) : a \in {"create", "update", "delete"},
                  p \in {<<"lib.rs">>, <<"src", "lib.rs">>, <<"..", "lib.rs">>},
                  c \in {LibShrunk, LibGrown}}
  \cup {Fix("update", p, Toml) :
          p \in {<<"Cargo.toml">>, <<"notes.md">>, <<"src", "lib.rs", ".">>, <<"src">>}}
  \cup {Fix("delete", <<"Cargo.toml">>, Toml),
         Fix("update", <<>>, LibGrown),
         Fix("update", <<"src", "lib.rs">>, Undefined),
         Fix("update", <<"src", "lib.rs">>, EmptyString),
         Fix("update", <<"Cargo.toml">>, EmptyString),
         NullFix, NonStringPathFix("update", LibGrown)}

SafeBatches == UNION {[1..n -> SafeFixes] : n \in 1..MaxBatch}

NextSafe ==
  /\ \/ Analyze(TRUE)
     \/ \E resp \in {ApiError, Json(<<Fix("create", <<"Cargo.toml">>, Toml)>>)} :
          Verify(resp)
     \/ /\ iteration = 0
        /\ Build(Run("exit", 1, {}, "error[E0425]: cannot find value"))
     \/ /\ pc = "loop" /\ iteration = 1
        /\ \E fixes \in SafeBatches : FixStep(Json(fixes))
  /\ UNCHANGED <<agVars, downloads, dkVars, swVars, scVars, fxVars>>

SpecSafe == InitSB /\ [][NextSafe]_vars

(***************************************************************************)
(* The regression guard on its own: src/lib.rs holds one of a few texts    *)
(* around the 10-line limit, iteration 0 fails to build, and the Advisor   *)
(* proposes one update of src/lib.rs with any small construct counts and   *)
(* a line count on either side of 70%.                                     *)
(***************************************************************************)
\* The most matches of one construct pattern in a proposed replacement.
MaxCount == 2

GuardProjects ==
  { (<<"src", "lib.rs">> :> old) :
      old \in {Text(1, 1, 1, 1, 10), Text(1, 1, 1, 1, 11), Text(1, 1, 1, 1, 20),
               Text(0, 0, 0, 0, 10)} }

GuardReplacements ==
  {Text(f, s, e, i, l) : f \in 0..MaxCount, s \in 0..MaxCount, e \in 0..MaxCount,
                         i \in 0..MaxCount, l \in {1, 7, 8, 13, 14, 20}}
  \cup {EmptyString}

InitGuard ==
  /\ pc = "loop"
  /\ iteration = 0
  /\ phases = <<>>
  /\ events = <<>>
  /\ lastBuildResult = NoBuildResult
  /\ result = NoResult
  /\ projectFiles \in GuardProjects
  /\ deployFiles = {}
  /\ written = <<>>
  /\ sandboxRuns = <<>>
  /\ advice = <<>>
  /\ safeCalls = <<>>
  /\ structureCalls = <<>>
  /\ IdleAgent

NextGuard ==
  /\ \/ Analyze(TRUE)
     \/ Verify(ApiError)
     \/ /\ iteration = 0
        /\ Build(Run("exit", 1, {}, "error[E0425]: cannot find value"))
     \/ /\ pc = "loop" /\ iteration = 1
        /\ \E new \in GuardReplacements :
             FixStep(Json(<<Fix("update", <<"src", "lib.rs">>, new)>>))
  /\ UNCHANGED <<agVars, downloads, dkVars, swVars, scVars, fxVars>>

SpecGuard == InitGuard /\ [][NextGuard]_vars

(***************************************************************************)
(* executeAnchorBuild (docker.js) step by step inside the smart-build      *)
(* loop: every await of the try block may reject, the wait races the       *)
(* timeout, and the catch and finally clauses follow.                      *)
(***************************************************************************)
\* The awaits of lines 72-213 in program order, and what follows each.
NextStep(step) ==
  CASE step = "mkdir" -> "create"
    [] step = "create" -> "putArchive"
    [] step = "putArchive" -> "attach"
    [] step = "attach" -> "start"
    [] OTHER -> "wait"

\* The build phase calls executeAnchorBuild (smartBuild.js line 134).
DkCall ==
  /\ pc = "building" /\ dk.pc = "idle"
  /\ dk' = [IdleDocker EXCEPT !.pc = "mkdir"]
  /\ UNCHANGED <<sbVars, dkCalls>>

\* Lines 72-213: fs.mkdir, docker.createContainer, container.putArchive,
\* container.attach and container.start; a rejection goes to the catch
\* clause.
DkTry(step, ok) ==
  /\ dk.pc = step
  /\ step \in {"mkdir", "create", "putArchive", "attach", "start"}
  /\ dk' = IF ~ok THEN [dk EXCEPT !.pc = "catch", !.failedAt = step]
           ELSE [dk EXCEPT !.pc = NextStep(step),
                           !.container = @ \/ step = "create",
                           !.state = CASE step = "create" -> "created"
                                       [] step = "start" -> "running"
                                       [] OTHER -> @,
                           !.networkMode = IF step = "create"
                                           THEN NetworkMode(NetworkDisabled) ELSE @]
  /\ UNCHANGED <<sbVars, dkCalls>>

\* Lines 215-221: Promise.race of container.wait() and the timeout.  The
\* container exits (run.kind = "exit"), the timeout wins while the container
\* is still running ("error"), or container.wait() rejects ("wait").
DkWait(run) ==
  /\ dk.pc = "wait"
  /\ dk' = IF run.kind = "exit"
           THEN [dk EXCEPT !.pc = "collect", !.state = "exited", !.exitCode = run.exitCode,
                           !.copied = run.copied, !.log = run.log]
           ELSE [dk EXCEPT !.pc = "catch", !.failedAt = run.kind, !.log = run.log]
  /\ UNCHANGED <<sbVars, dkCalls>>

\* Lines 223-279: the final logs and the listing of the output directory
\* (each in a try of its own), then the return statement.
DkCollect ==
  /\ dk.pc = "collect"
  /\ dk' = [dk EXCEPT !.pc = "finally",
                      !.value = [defined |-> TRUE, success |-> (dk.exitCode = 0),
                                 exitCode |-> dk.exitCode, error |-> "", logs |-> dk.log]]
  /\ UNCHANGED <<sbVars, dkCalls>>

\* Lines 281-302: the catch clause reads the logs of a container it holds
\* (in a try of its own) and returns the failure.
DkCatch ==
  /\ dk.pc = "catch"
  /\ dk' = [dk EXCEPT !.pc = "finally",
                      !.value = [defined |-> TRUE, success |-> FALSE, exitCode |-> -1,
                                 error |-> FailureMessage(dk.failedAt), logs |-> dk.log]]
  /\ UNCHANGED <<sbVars, dkCalls>>

\* A finally clause that removes no container.
CleansUpNever(container) == FALSE

\* Line 305: `if (container)`.
CleansUp(container) == container

\* Lines 303-313: container.remove({force: true}) in a try of its own; ok is
\* whether the runtime removed the container.
DkFinally(ok) ==
  /\ dk.pc = "finally"
  /\ dk' = IF CleansUp(dk.container)
           THEN [dk EXCEPT !.pc = "returning", !.removeAttempts = @ + 1,
                           !.state = IF ok THEN "removed" ELSE @]
           ELSE [dk EXCEPT !.pc = "returning"]
  /\ UNCHANGED <<sbVars, dkCalls>>

\* The call seen from outside: what the container did, or the step that
\* failed.
AsRun(d) ==
  Run(IF d.failedAt = "" THEN "exit" ELSE d.failedAt, d.exitCode, d.copied, d.log)

\* executeAnchorBuild returns and the build phase goes on with the value
\* (smartBuild.js lines 134-198).
DkReturn ==
  /\ dk.pc = "returning"
  /\ Build(AsRun(dk))
  /\ dkCalls' = Append(dkCalls, [dk EXCEPT !.pc = "returned"])
  /\ dk' = IdleDocker

\* What the container of one call may do once it has started.
ContainerRuns ==
  { Run("exit", 0, {"prog.so", "prog-keypair.json"}, "Finished release"),
    Run("exit", 1, {}, "error[E0425]: cannot find value"),
    Run("error", -1, {}, "") }

\* The first call may fail at every step; a later call gets as far as the
\* wait.
NextSandbox ==
  /\ \/ /\ \/ Analyze(TRUE)
           \/ Verify(ApiError)
           \/ \E resp \in {ApiError, Json(<<>>)} : FixStep(resp)
           \/ Exhausted
        /\ UNCHANGED dkVars
     \/ DkCall
     \/ \E step \in {"mkdir", "create", "putArchive", "attach", "start"}, ok \in BOOLEAN :
          /\ ok \/ iteration = 0
          /\ DkTry(step, ok)
     \/ \E run \in ContainerRuns \cup {Run("wait", -1, {}, "")} :
          /\ run.kind # "wait" \/ iteration = 0
          /\ DkWait(run)
     \/ DkCollect
     \/ DkCatch
     \/ \E ok \in BOOLEAN : DkFinally(ok)
     \/ DkReturn
  /\ UNCHANGED <<agVars, downloads, swVars, scVars, fxVars>>

SpecSandbox == InitAgent /\ [][NextSandbox]_vars

(***************************************************************************)
(* The build records over time and the periodic sweep (buildManager.js).   *)
(* The sweep runs without interruption up to each await of fs.rm; between  *)
(* two such stretches time passes and builds are admitted and updated.     *)
(***************************************************************************)
\* How far the clock runs.
MaxTime == 4

Tick ==
  /\ clock < MaxTime
  /\ clock' = clock + 1
  /\ UNCHANGED <<agVars, dirs, sweep, evictions>>

\* extractProject (lines 21-37): the record is set and both directories are
\* made.  Build ids are fresh, and the Map keeps them in insertion order.
Admit(b) ==
  /\ dirs[b] = NoDirs
  /\ \A a \in 1..(b - 1) : dirs[a] # NoDirs
  /\ builds' = NewBuild(builds, b, "none", clock)
  /\ dirs' = [dirs EXCEPT ![b] = [project |-> "present", output |-> "present"]]
  /\ UNCHANGED <<activeAgentBuilds, reqs, deployFilesOf, statusLog, clock, sweep, evictions>>

\* An agent's build of b is in progress: between setActiveAgentBuild and the
\* finally clause of the route.
InProgress(b) == \E a \in Agents : activeAgentBuilds[a].buildId = b

\* POST /project/:buildId/build (part_006 lines 594-635) starts the build of
\* a record that has not been built: the record is left as it is.
StartBuild(a, b) ==
  /\ getActiveAgentBuild(a) = NoEntry
  /\ builds[b].status = "ready"
  /\ activeAgentBuilds' = setActiveAgentBuild(activeAgentBuilds, a, b, b)
  /\ UNCHANGED <<builds, reqs, deployFilesOf, statusLog, swVars>>

\* The build of b by agent a ends (lines 637-655): the finally clause
\* releases the lock and updateBuildStatus(buildId, status) follows.
Update(a, b, status) ==
  /\ activeAgentBuilds[a].buildId = b
  /\ activeAgentBuilds' = clearActiveAgentBuild(activeAgentBuilds, a)
  /\ builds' = updateBuildStatus(builds, b, status, clock)
  /\ UNCHANGED <<reqs, deployFilesOf, statusLog, swVars>>

\* Lines 284-285: the next entry after cur, in the order of the Map, whose
\* updatedAt lies before the cutoff (NoBuild: the iteration ends).
NextStale(bs, cur, cutoff) ==
  LET stale == {b \in BuildIds : b > cur /\ bs[b].status # "absent" /\ bs[b].updatedAt < cutoff}
  IN IF stale = {} THEN NoBuild ELSE CHOOSE b \in stale : \A a \in stale : b <= a

\* The loop goes on from cur to the first await of the next stale entry.
GoOn(bs, cur, cutoff) ==
  LET b == NextStale(bs, cur, cutoff) IN
  [pc |-> IF b = NoBuild THEN "idle" ELSE "rmProject", cutoff |-> cutoff, cur |-> b]

\* setInterval(cleanupOldBuilds, ...) fires (lines 279-289).
SweepStart ==
  /\ sweep.pc = "idle"
  /\ sweep' = GoOn(builds, NoBuild, clock - CleanupAfter)
  /\ sweep' # sweep
  /\ UNCHANGED <<agVars, clock, dirs, evictions>>

\* Line 295, builds.delete(buildId), after the try statement.
Evict(b, ds) ==
  /\ builds' = [builds EXCEPT ![b] = AbsentBuild]
  /\ evictions' = Append(evictions,
                     [build |-> b, status |-> builds[b].status, updatedAt |-> builds[b].updatedAt,
                      cutoff |-> sweep.cutoff, now |-> clock, dirs |-> ds[b]])
  /\ sweep' = GoOn(builds', b, sweep.cutoff)

\* Line 289: fs.rm(build.projectDir) settles; a rejection goes to the catch
\* clause, past the second fs.rm.
RmProject(ok) ==
  /\ sweep.pc = "rmProject"
  /\ IF ok
     THEN /\ dirs' = [dirs EXCEPT ![sweep.cur].project = "removed"]
          /\ sweep' = [sweep EXCEPT !.pc = "rmOutput"]
          /\ UNCHANGED <<builds, evictions>>
     ELSE /\ Evict(sweep.cur, dirs)
          /\ UNCHANGED dirs
  /\ UNCHANGED <<activeAgentBuilds, reqs, deployFilesOf, statusLog, clock>>

\* Line 290: fs.rm(build.outputDir) settles, then the record is deleted.
RmOutput(ok) ==
  /\ sweep.pc = "rmOutput"
  /\ dirs' = IF ok THEN [dirs EXCEPT ![sweep.cur].output = "removed"] ELSE dirs
  /\ Evict(sweep.cur, dirs')
  /\ UNCHANGED <<activeAgentBuilds, reqs, deployFilesOf, statusLog, clock>>

NextSweep ==
  /\ \/ Tick
     \/ \E b \in BuildIds : Admit(b)
     \/ \E b \in BuildIds : StartBuild("a1", b)
     \/ \E b \in BuildIds, status \in {"success", "failed"} : Update("a1", b, status)
     \/ SweepStart
     \/ \E ok \in BOOLEAN : RmProject(ok)
     \/ \E ok \in BOOLEAN : RmOutput(ok)
  /\ UNCHANGED <<sbVars, downloads, dkVars, scVars, fxVars>>

SpecSweep == InitAgent /\ [][NextSweep]_vars

(***************************************************************************)
(* scanArtifacts on output directories of every small shape, scanned       *)
(* again and again while the container may copy one more artifact.         *)
(***************************************************************************)
\* How many scans one output directory sees.
MaxScans == 2

LastScan == IF scans = <<>> THEN NoArtifacts ELSE scans[Len(scans)].result

\* One call of scanArtifacts: it calls fs.readdir and nothing else of fs.
Scan ==
  /\ Len(scans) < MaxScans
  /\ scans' = Append(scans, [dir |-> outDir, result |-> ScanArtifacts(outDir, LastScan)])
  /\ UNCHANGED outDir

\* mkdir -p of one directory below /output/target (docker.js line 125).
MakeDir(sub) ==
  /\ ~outDir[sub].present
  /\ outDir' = [outDir EXCEPT !.target = TRUE, ![sub].present = TRUE]
  /\ UNCHANGED scans

\* cp of one file into a directory below /output/target that is there
\* (docker.js lines 126-129).
CopyArtifact(sub, name) ==
  /\ outDir[sub].present
  /\ \A k \in 1..Len(outDir[sub].files) : outDir[sub].files[k] # name
  /\ outDir' = [outDir EXCEPT ![sub].files = Append(@, name)]
  /\ UNCHANGED scans

\* The names a directory of the output may come to hold.
ArtifactNames(sub) ==
  CASE sub = "deploy" -> {"prog.so", "prog-keypair.json", "notes.txt"}
    [] sub = "idl" -> {"prog.json", "README"}
    [] OTHER -> {"prog.ts", "prog.json"}

\* The output directory is written in any order before the first scan; after
\* a scan the only changes are a late prog.so and a late prog.json.
NextScan ==
  /\ \/ Scan
     \/ \E sub \in {"deploy", "idl", "types"} : scans = <<>> /\ MakeDir(sub)
     \/ \E sub \in {"deploy", "idl", "types"} : \E name \in ArtifactNames(sub) :
          /\ scans = <<>> \/ <<sub, name>> \in {<<"deploy", "prog.so">>, <<"idl", "prog.json">>}
          /\ CopyArtifact(sub, name)
  /\ UNCHANGED <<sbVars, agVars, downloads, dkVars, swVars, fxVars>>

SpecScan == InitAgent /\ [][NextScan]_vars

(***************************************************************************)
(* Properties.                                                             *)
(***************************************************************************)
Building(a) == {r \in Requests : reqs[r].pc = "building" /\ reqs[r].agent = a}

\* C1: at every instant at most one build of an agent is executing: of the
\* requests of one agent (POST /build, POST /project/:buildId/build) at most
\* one is between taking the lock and the return of its build.
C1_OneBuildPerAgent == \A a \in Agents : Cardinality(Building(a)) <= 1

StatusSteps == {<<"ready", "running">>, <<"running", "success">>, <<"running", "failed">>}

\* C2: the status values a build record shows follow ready -> running ->
\* terminal: the first is ready, and every change is ready to running or
\* running to success or failed, so running is never skipped and ready is
\* never entered again.
C2_StatusFollowsStateMachine ==
  \A b \in BuildIds :
    LET log == statusLog[b] IN
    /\ log # <<>> => log[1] = "ready"
    /\ \A k \in 1..(Len(log) - 1) : <<log[k], log[k + 1]>> \in StatusSteps

NonDecreasing(seq) ==
  \A k \in 1..(Len(seq) - 1) : seq[k].iteration <= seq[k + 1].iteration

Returned == result.outcome \in {"success", "cannot_fix", "exhausted"}

\* C3: the iteration index of every PhaseRecord and of every progress event
\* lies in 0..MAX_ITERATIONS-1 and never decreases along the run, a returned
\* iterations count lies in 1..MAX_ITERATIONS, and there are at most
\* MAX_ITERATIONS sandbox runs.
C3_IterationBounded ==
  /\ \A k \in 1..Len(phases) : phases[k].iteration \in 0..(MAX_ITERATIONS - 1)
  /\ \A k \in 1..Len(events) : events[k].iteration \in 0..(MAX_ITERATIONS - 1)
  /\ NonDecreasing(phases)
  /\ NonDecreasing(events)
  /\ Returned => result.iterations \in 1..MAX_ITERATIONS
  /\ Len(sandboxRuns) <= MAX_ITERATIONS

C3_Witness ==
  /\ result.outcome = "exhausted"
  /\ Len(sandboxRuns) = MAX_ITERATIONS
  /\ phases[Len(phases)].iteration = MAX_ITERATIONS - 1

CleanLogs == {"Finished release", "note: aborting due to"}

\* A sandbox run that exited with 0, with a .so in the deploy directory
\* after it and a log that matches no error pattern.
PassesPostCheck(e) ==
  /\ e.run.kind = "exit" /\ e.run.exitCode = 0
  /\ "prog.so" \in e.deploy
  /\ e.run.log \in CleanLogs

SaidCannotFix(a) == a.iteration >= 1 /\ a.resp.api = "ok" /\ a.resp.saysCannotFix

\* C4: smartBuild ends, and with one of success, cannot-fix, exhausted: a
\* run that is not over can take a step, a run that is over has returned
\* one of the three, and it returned exhausted with iterations =
\* MAX_ITERATIONS exactly when no sandbox run passed the post-check and the
\* Advisor never said cannot-fix.
C4_EndsWithOneOutcome ==
  /\ pc # "done" => ENABLED NextSB
  /\ pc = "done" =>
       /\ Returned
       /\ (result.outcome = "exhausted" /\ result.iterations = MAX_ITERATIONS)
            <=> /\ \A k \in 1..Len(sandboxRuns) : ~PassesPostCheck(sandboxRuns[k])
                /\ \A k \in 1..Len(advice) : ~SaidCannotFix(advice[k])

AdvisorFailed(a) == a.iteration >= 1 /\ a.resp.api = "error"

\* C6: after an Advisor call that failed at index i >= 1 there is a fixing
\* PhaseRecord of index i with outcome failed, there is no sandbox run of
\* index i, the loop variable is past i, whatever is recorded next has
\* index i + 1, and no result is returned for index i.
C6_AdvisorFailureSkipsRebuild ==
  \A k \in 1..Len(advice) :
    LET a == advice[k] IN
    AdvisorFailed(a) =>
      /\ \E j \in 1..Len(phases) :
           /\ phases[j] = PhaseRecord("fixing", a.iteration, "failed")
           /\ j < Len(phases) => phases[j + 1].iteration = a.iteration + 1
      /\ \A j \in 1..Len(sandboxRuns) : sandboxRuns[j].iteration # a.iteration
      /\ iteration > a.iteration
      /\ result.outcome \in {"success", "cannot_fix"} => result.iterations > a.iteration + 1

C6_Witness ==
  /\ \E k \in 1..Len(advice) : AdvisorFailed(advice[k]) /\ advice[k].iteration = 1
  /\ \E j \in 1..Len(sandboxRuns) : sandboxRuns[j].iteration = 2

\* C7: once the Advisor has said cannot-fix at index i >= 1, smartBuild has
\* returned the cannot-fix outcome with iterations = i + 1 and with the
\* analysis of the Advisor's answer as the reason, that answer is the last
\* one asked for, and every sandbox run has an index below i.
C7_CannotFixReturnsAtOnce ==
  \A k \in 1..Len(advice) :
    LET a == advice[k] IN
    SaidCannotFix(a) =>
      /\ pc = "done" /\ k = Len(advice)
      /\ result.outcome = "cannot_fix" /\ result.cannotFix /\ ~result.success
      /\ result.iterations = a.iteration + 1
      /\ (a.resp.form = "json" /\ a.resp.analysis # "") =>
           result.cannotFixReason = a.resp.analysis
      /\ \A j \in 1..Len(sandboxRuns) : sandboxRuns[j].iteration < a.iteration

C7_Witness ==
  /\ \E k \in 1..Len(advice) : SaidCannotFix(advice[k]) /\ advice[k].iteration = 2
  /\ result.cannotFixReason = "needs a redesign"
  /\ Len(sandboxRuns) = 2

\* C8: after an Advisor call of index i >= 1 that succeeded without saying
\* cannot-fix, the build phase of index i is next or the sandbox has run at
\* index i.
C8_RebuildAfterEveryAnswer ==
  \A k \in 1..Len(advice) :
    LET a == advice[k] IN
    (a.iteration >= 1 /\ a.resp.api = "ok" /\ ~a.resp.saysCannotFix) =>
      \/ k = Len(advice) /\ pc = "building" /\ iteration = a.iteration
      \/ \E j \in 1..Len(sandboxRuns) : sandboxRuns[j].iteration = a.iteration

\* C9: every building PhaseRecord comes after the verifying record of index
\* 0, a building record of index i >= 1 comes directly after a fixing
\* record of index i, and when an event opens another phase (or the same
\* phase at another index) the PhaseRecord of the phase before it is
\* already in the list.
C9_PhasesInProgramOrder ==
  /\ \A k \in 1..Len(phases) :
       phases[k].phase = "building" =>
         /\ \E j \in 1..(k - 1) : phases[j].phase = "verifying" /\ phases[j].iteration = 0
         /\ phases[k].iteration >= 1 =>
              /\ phases[k - 1].phase = "fixing"
              /\ phases[k - 1].iteration = phases[k].iteration
  /\ \A k \in 2..Len(events) :
       LET e == events[k]
           d == events[k - 1] IN
       (e.phase # d.phase \/ e.iteration # d.iteration) =>
         \E j \in 1..e.nphases :
           phases[j].phase = d.phase /\ phases[j].iteration = d.iteration

C9_Witness ==
  /\ Len(phases) >= 6
  /\ phases[Len(phases)].phase = "building"
  /\ phases[Len(phases)].iteration = 2

HasRsExtension(p) == ExtName(p) = ".rs" \/ EndsWithRs(p)

\* C10: no path written during iteration 0 has the extension .rs.
C10_NoRsWrittenAtIterationZero ==
  \A k \in 1..Len(written) :
    written[k].iteration = 0 => ~HasRsExtension(written[k].path)

C10_Witness ==
  /\ \E k \in 1..Len(advice) :
       /\ advice[k].iteration = 0
       /\ Len(advice[k].resp.fixes) = 2
       /\ advice[k].resp.fixes[1] = Fix("update", <<"src", "lib.rs">>, LibShrunk)
  /\ written = <<[iteration |-> 0, path |-> <<"Cargo.toml">>]>>

\* C11: every path written during iteration 0 has a configuration-file
\* extension (.toml, .json, .lock); a proposal with any other extension is
\* not written.
C11_OnlyConfigWrittenAtIterationZero ==
  \A k \in 1..Len(written) :
    written[k].iteration = 0 => IsConfigExt(ExtName(written[k].path))

\* The result of the call c of applySafeFixes on its first k proposals.
UpTo(c, k) == ApplySafeFixes(c.before, SubSeq(c.fixes, 1, k), c.iteration)

\* How the call c of applySafeFixes dealt with its k-th proposal: the source
\* tree before and after it, whether it was applied, rejected (with the
\* reason) or threw ("unreached": an earlier proposal threw), and the action
\* under which it was applied.
Dealt(c, k) ==
  LET r0 == UpTo(c, k - 1)
      r1 == UpTo(c, k)
      rejects == Len(r1.rejected) > Len(r0.rejected)
      applies == Len(r1.applied) > Len(r0.applied)
  IN [fix |-> c.fixes[k], before |-> r0.fs, after |-> r1.fs,
      outcome |-> IF r0.threw THEN "unreached"
                  ELSE IF r1.threw THEN "threw"
                  ELSE IF rejects THEN "rejected" ELSE "applied",
      reason |-> IF rejects THEN r1.rejected[Len(r1.rejected)].reason ELSE "",
      as |-> IF applies THEN r1.applied[Len(r1.applied)].action ELSE ""]

\* The recorded call is the call on all of its proposals.
WholeCall(c) ==
  LET r == UpTo(c, Len(c.fixes)) IN
  c.iterable =>
    c.applied = r.applied /\ c.rejected = r.rejected /\ c.threw = r.threw /\ c.after = r.fs

LowerCount(old, new) ==
  \/ new.fns < old.fns
  \/ new.structs < old.structs
  \/ new.enums < old.enums
  \/ new.impls < old.impls

\* old has more than 10 lines and new has fewer than 0.7 times as many.
UnderSeventyPercent(old, new) == old.lines > 10 /\ 10 * new.lines < 7 * old.lines

\* The k-th proposal of the call c is an update, under a path with the
\* extension .rs, of a file that exists when the proposal is reached.
UpdatesExistingRs(c, k) ==
  LET d == Dealt(c, k) IN
  /\ d.outcome \in {"applied", "rejected"}
  /\ d.fix.shape = "object" /\ d.fix.action = "update" /\ d.fix.content.kind = "text"
  /\ ExtName(d.fix.path) = ".rs"
  /\ IsFile(d.before, PathJoin(d.fix.path))

\* The call c rejects its k-th proposal exactly when the replacement has a
\* lower construct count or is under 70% of more than 10 lines, and otherwise
\* applies it and writes the replacement.
GuardDecides(c, k) ==
  LET d == Dealt(c, k)
      t == PathJoin(d.fix.path)
      old == d.before[t]
  IN IF LowerCount(old, d.fix.content) \/ UnderSeventyPercent(old, d.fix.content)
     THEN d.outcome = "rejected" /\ d.after = d.before
     ELSE d.outcome = "applied" /\ d.after = WriteFile(d.before, t, d.fix.content)

ReachedByApplyFixes(s, k) ==
  ApplyFixes(s.before, SubSeq(s.fixes, 1, k - 1), TRUE).success

\* C14: a proposal that is rejected or fails aborts neither its batch nor the
\* iteration: every proposal of every batch is reached (applySafeFixes does
\* not throw and applies or rejects each one, applyFixes comes to each one
\* the structure filter kept), and a rejected proposal leaves the source tree
\* as it was and is returned with a reason.
C14_OneProposalNeverAbortsTheBatch ==
  /\ \A n \in 1..Len(safeCalls) :
       /\ ~safeCalls[n].threw
       /\ \A k \in 1..Len(safeCalls[n].fixes) :
            LET d == Dealt(safeCalls[n], k) IN
            /\ d.outcome \in {"applied", "rejected"}
            /\ d.outcome = "rejected" => d.after = d.before /\ d.reason # ""
  /\ \A n \in 1..Len(structureCalls) :
       /\ structureCalls[n].parsed # <<>> => structureCalls[n].success
       /\ \A k \in 1..Len(structureCalls[n].fixes) :
            ReachedByApplyFixes(structureCalls[n], k)

\* The proposal is an object without a path (none or an empty one) or
\* without content (none or an empty one).
MissingPathOrContent(fix) ==
  /\ fix.shape = "object"
  /\ fix.path = <<>> \/ fix.content.kind = "undefined" \/ fix.content.empty

\* C15: a proposal with a missing path or missing content that applySafeFixes
\* comes to is rejected with the reason "Missing path or content", without
\* an exception, the source tree stays as it was, and the next proposal of
\* the batch is dealt with.
C15_MissingPathOrContentRejected ==
  \A n \in 1..Len(safeCalls) : \A k \in 1..Len(safeCalls[n].fixes) :
    LET d == Dealt(safeCalls[n], k) IN
    (d.outcome # "unreached" /\ MissingPathOrContent(d.fix)) =>
      /\ d.outcome = "rejected"
      /\ d.reason = "Missing path or content"
      /\ d.after = d.before
      /\ k < Len(safeCalls[n].fixes) => Dealt(safeCalls[n], k + 1).outcome # "unreached"

\* A batch whose first proposal has no content and whose second is a good
\* update of Cargo.toml: the first is rejected, the second written.
C15_Witness ==
  /\ Len(safeCalls) = 1
  /\ safeCalls[1].fixes = <<Fix("update", <<"src", "lib.rs">>, Undefined),
                            Fix("update", <<"Cargo.toml">>, Toml)>>
  /\ safeCalls[1].rejected = <<[fix |-> Fix("update", <<"src", "lib.rs">>, Undefined),
                                reason |-> "Missing path or content"]>>
  /\ safeCalls[1].applied = <<Fix("update", <<"Cargo.toml">>, Toml)>>
  /\ ~safeCalls[1].threw
  /\ pc = "building"

\* The Advisor answered, did not say cannot-fix, and its text holds no JSON
\* object with an array under "fixes".
WithoutFixesArray(a) ==
  /\ a.iteration >= 1 /\ a.resp.api = "ok" /\ ~a.resp.saysCannotFix
  /\ ~(a.resp.form = "json" /\ a.resp.fixesField = "array")

\* C16: no answer of the Advisor makes smartBuild throw, and after an answer
\* without a JSON block, with invalid JSON, without a fixes field or with any
\* other content under it, the fixing phase of that index is recorded with
\* the outcome no_fixes (the proposal list was taken as empty).
C16_NoAdvisorAnswerThrows ==
  /\ result.outcome # "threw"
  /\ \A k \in 1..Len(advice) :
       WithoutFixesArray(advice[k]) =>
         \E j \in 1..Len(phases) :
           /\ phases[j].phase = "fixing"
           /\ phases[j].iteration = advice[k].iteration
           /\ phases[j].result = "no_fixes"

\* C17: the keypair material of a successful build reaches a client in the
\* completion payload of its build request and through no other interface:
\* the artifact download route never serves a keypair file, whenever it is
\* asked.
C17_SecretsOnlyInCompletionPayload ==
  \A d \in downloads : d.file \notin KeypairFiles

\* The request r has answered a successful build and its handler has ended.
Completed(r) == reqs[r].pc = "done" /\ reqs[r].success /\ reqs[r].http = 200

\* C18: when the handler of a successful build has ended, its payload holds
\* one record for each *-keypair.json file the output directory held at the
\* end of the build, and none of the files of those records is left.
C18_EveryCredentialFileDeliveredAndPurged ==
  \A r \in Requests :
    Completed(r) => reqs[r].keypairs = reqs[r].produced /\ reqs[r].left = {}

C20_LockReleasedWhenBuildEnds ==
  \A a \in Agents :
    activeAgentBuilds[a] # NoEntry =>
      \E r \in Requests :
        /\ reqs[r].agent = a /\ reqs[r].pc = "building"
        /\ reqs[r].buildId = activeAgentBuilds[a].buildId

\* The build of the agent's first request threw (500, the record is still
\* ready), and the agent's next request was admitted and is in its build.
C20_Witness ==
  /\ reqs[1].pc = "done" /\ reqs[1].http = 500 /\ builds[1].status = "ready"
  /\ reqs[2].agent = reqs[1].agent
  /\ reqs[2].route = "project_build" /\ reqs[2].pc = "building"
  /\ activeAgentBuilds[reqs[2].agent].buildId = reqs[2].buildId

C22_RemovalAttemptedBeforeReturn ==
  /\ dk.state # "none" => dk.container
  /\ (dk.pc = "returning" /\ dk.container) => dk.removeAttempts = 1
  /\ dk.pc \notin {"finally", "returning"} => dk.removeAttempts = 0
  /\ \A k \in 1..Len(dkCalls) :
       /\ dkCalls[k].state # "none" => dkCalls[k].container
       /\ dkCalls[k].container => dkCalls[k].removeAttempts = 1

\* The first call held a container when putArchive rejected, the second ran
\* into the timeout: the removal was attempted in both, and the container
\* that was still running is gone.
C22_Witness ==
  /\ Len(dkCalls) = 2
  /\ dkCalls[1].failedAt = "putArchive" /\ dkCalls[1].removeAttempts = 1
  /\ dkCalls[2].failedAt = "error" /\ dkCalls[2].removeAttempts = 1
  /\ dkCalls[2].state = "removed"

\* The last call of executeAnchorBuild before the repair request of index i.
LastCallBefore(i, k) ==
  /\ sandboxRuns[k].iteration < i
  /\ k < Len(sandboxRuns) => sandboxRuns[k + 1].iteration >= i

\* C23: executeAnchorBuild does not throw: a call that ran into the timeout,
\* or in which a step such as the creation or the start of the container
\* failed, returns a value with success = false and the error message, that
\* value is what the build phase of smartBuild goes on with, smartBuild does
\* not throw, and the next repair request carries the error message.
C23_SandboxFailureReturnedAndPassedOn ==
  /\ result.outcome # "threw"
  /\ dk.pc = "returning" => dk.value.defined /\ dk.value = ExecuteAnchorBuild(AsRun(dk))
  /\ Len(dkCalls) = Len(sandboxRuns)
  /\ \A k \in 1..Len(dkCalls) :
       /\ dkCalls[k].value.defined
       /\ sandboxRuns[k].run = AsRun(dkCalls[k])
       /\ dkCalls[k].failedAt # "" =>
            /\ ~dkCalls[k].value.success
            /\ dkCalls[k].value.error = FailureMessage(dkCalls[k].failedAt)
            /\ k = Len(dkCalls) => lastBuildResult = dkCalls[k].value
            /\ \A n \in 1..Len(advice) :
                 (advice[n].iteration >= 1 /\ LastCallBefore(advice[n].iteration, k)) =>
                   advice[n].errorMsg = dkCalls[k].value.error

\* The first call ran into the timeout and the repair request of index 1
\* carried "Build timeout exceeded".
C23_Witness ==
  /\ Len(dkCalls) >= 1 /\ dkCalls[1].failedAt = "error"
  /\ dkCalls[1].value.error = "Build timeout exceeded"
  /\ \E n \in 1..Len(advice) :
       advice[n].iteration = 1 /\ advice[n].errorMsg = "Build timeout exceeded"
  /\ pc = "building" /\ iteration = 1

\* C24: the sweep evicts a build exactly when its last update is older than
\* the retention window, whatever its status: every record the sweep deletes
\* has a last update before the cutoff and both of its directories are
\* removed with it, after a sweep no record with a last update before its
\* cutoff is left, and a build that still has its record has both of its
\* directories unless the sweep is just removing them.
C24_SweepEvictsExactlyStaleBuilds ==
  /\ \A k \in 1..Len(evictions) :
       /\ evictions[k].updatedAt < evictions[k].cutoff
       /\ evictions[k].dirs = [project |-> "removed", output |-> "removed"]
  /\ sweep.pc = "idle" =>
       \A b \in BuildIds : builds[b].status # "absent" => builds[b].updatedAt >= sweep.cutoff
  /\ \A b \in BuildIds :
       (builds[b].status # "absent" /\ ~(sweep.pc # "idle" /\ sweep.cur = b)) =>
         dirs[b] = [project |-> "present", output |-> "present"]

Has(d, sub) == d.target /\ d[sub].present

\* C26: scanArtifacts returns for every output directory; a category whose
\* directory (or the whole target directory) is absent is reported empty, and
\* the categories of the directories that are there are reported in full,
\* whichever of the others are absent.
C26_AbsentSubdirectoryIsEmptyCategory ==
  \A i \in 1..Len(scans) :
    LET d == scans[i].dir
        r == scans[i].result
    IN
    /\ ~Has(d, "deploy") => r.programs = <<>> /\ r.deploy = <<>>
    /\ ~Has(d, "idl") => r.idl = <<>>
    /\ ~Has(d, "types") => r.types = <<>>
    /\ Has(d, "deploy") =>
         /\ r.programs = Pushed(d.deploy.files, ".so", "program")
         /\ r.deploy = Pushed(d.deploy.files, ".json", "deploy")
    /\ Has(d, "idl") => r.idl = Pushed(d.idl.files, ".json", "idl")
    /\ Has(d, "types") => r.types = Pushed(d.types.files, ".ts", "types")

\* The deploy directory is absent, and the scan reports the IDL and the
\* types that are there.
C26_Witness ==
  /\ Len(scans) = 1
  /\ ~scans[1].dir.deploy.present
  /\ scans[1].result.programs = <<>> /\ scans[1].result.deploy = <<>>
  /\ scans[1].result.idl = <<Artifact("prog.json", "idl")>>
  /\ scans[1].result.types = <<Artifact("prog.ts", "types")>>

\* C27: the result of a failed smartBuild is marked cannot-fix, with the
\* Advisor's reason, only when the Advisor has said cannot-fix; the result
\* of a run that used up all iterations is not marked cannot-fix.
C27_CannotFixOnlyWhenAdvisorDeclined ==
  (pc = "done" /\ Returned /\ ~result.success) =>
    /\ result.cannotFix <=> \E k \in 1..Len(advice) : SaidCannotFix(advice[k])
    /\ result.outcome = "exhausted" => ~result.cannotFix

(***************************************************************************)
(* analyzeAndFixBuildFailure (part_000 lines 666-773) attempt by attempt   *)
(* inside the smart-build loop: each attempt resolves with the Advisor's   *)
(* text or rejects, with a rate-limit signal (status 429) or with another  *)
(* error.                                                                  *)
(***************************************************************************)
\* smartBuild.js line 71: the repair call of an iteration >= 1 starts.
FxCall ==
  /\ pc = "loop" /\ LoopGuard(iteration) /\ ~IsStructurePass(iteration)
  /\ fx.pc = "idle"
  /\ fx' = [IdleFx EXCEPT !.pc = "trying"]
  /\ UNCHANGED <<sbVars, fxCalls>>

\* One pass of the for loop (lines 677-772): the try block returns the
\* parsed answer, or the catch clause waits and goes on with the next
\* attempt (wait: the last wait made, with the header it was computed from),
\* or returns the failed result.  The message that a wait hands to
\* onProgress (lines 756-758) is not kept in events.
FxAttempt(outcome, resp, header) ==
  /\ fx.pc = "trying" /\ fx.attempt < MAX_RETRIES
  /\ fx' = IF outcome = "ok"
           THEN [fx EXCEPT !.pc = "returning", !.tries = Append(@, outcome),
                           !.value = resp]
           ELSE IF Retries(outcome = "rateLimit", fx.attempt)
           THEN [fx EXCEPT !.attempt = @ + 1, !.tries = Append(@, outcome),
                           !.wait = [made |-> TRUE, header |-> header,
                                     waitSec |-> WaitSec(header)]]
           ELSE [fx EXCEPT !.pc = "returning", !.tries = Append(@, outcome),
                           !.value = ApiError]
  /\ UNCHANGED <<sbVars, fxCalls>>

\* The call returns and the fix phase goes on with the value (smartBuild.js
\* lines 71-123).
FxReturn ==
  /\ fx.pc = "returning"
  /\ FixStep(fx.value)
  /\ fxCalls' = Append(fxCalls, [iteration |-> iteration, tries |-> fx.tries,
                                 value |-> fx.value])
  /\ fx' = IdleFx

\* The retry-after headers of the rate-limit signals: none, one that does
\* not parse, "0", and hints below, at and above the default wait.
RetryAfterHeaders ==
  { NoRetryAfter, RetryAfter(TRUE, FALSE, 0), RetryAfter(TRUE, TRUE, 0),
    RetryAfter(TRUE, TRUE, 30), RetryAfter(TRUE, TRUE, 65), RetryAfter(TRUE, TRUE, 120) }

\* Every sandbox run fails, and the Advisor, when it answers, has no
\* proposals or says that it cannot fix the build.
NextAdvisor ==
  /\ \/ /\ \/ Analyze(TRUE)
           \/ Verify(ApiError)
           \/ Build(Run("exit", 1, {}, "error[E0425]: cannot find value"))
           \/ Exhausted
        /\ UNCHANGED fxVars
     \/ FxCall
     \/ \E header \in RetryAfterHeaders : FxAttempt("rateLimit", ApiError, header)
     \/ FxAttempt("error", ApiError, NoRetryAfter)
     \/ \E resp \in {Json(<<>>), Response("ok", "json", "absent", <<>>, TRUE, "unfixable")} :
          FxAttempt("ok", resp, NoRetryAfter)
     \/ FxReturn
  /\ UNCHANGED <<agVars, downloads, dkVars, swVars, scVars>>

SpecAdvisor == InitAgent /\ [][NextAdvisor]_vars

AnalysisFailed == Len(phases) >= 1 /\ phases[1] = PhaseRecord("analyzing", 0, "failed")

\* C29: after a failed static analysis at iteration 0 smartBuild goes on:
\* it is at the structure verification or has made it, it is before the
\* first sandbox run or has made it at iteration 0, and it has not ended
\* without a sandbox run.
C29_FailedAnalysisDoesNotAbort ==
  AnalysisFailed =>
    /\ pc = "verifying" \/ Len(structureCalls) = 1
    /\ \/ pc = "verifying"
       \/ pc = "building" /\ iteration = 0
       \/ Len(sandboxRuns) >= 1 /\ sandboxRuns[1].iteration = 0
    /\ pc = "done" => Len(sandboxRuns) >= 1

\* Witness: the analysis failed, the structure was verified, and the
\* sandbox run of iteration 0 has been made.
C29_Witness ==
  /\ AnalysisFailed
  /\ Len(structureCalls) = 1
  /\ Len(sandboxRuns) >= 1 /\ sandboxRuns[1].iteration = 0

\* C30: every container that executeAnchorBuild has started, in a call
\* that has returned or in the call in progress, runs with network mode
\* "none".
C30_EverySandboxRunWithoutNetwork ==
  /\ \A k \in 1..Len(dkCalls) :
       (/\ dkCalls[k].container
        /\ dkCalls[k].failedAt \notin {"mkdir", "create", "putArchive", "attach", "start"})
         => dkCalls[k].networkMode = "none"
  /\ dk.state \in {"running", "exited"} => dk.networkMode = "none"

\* C31: a repair answer that cannot be parsed (no JSON block, or a block
\* that JSON.parse rejects) gives the call result with the empty proposal
\* list and cannotFix = false, and the job does not end as cannot-fix in
\* the iteration of that answer.
C31_UnparsableAnswerIsNotCannotFix ==
  \A k \in 1..Len(advice) :
    LET a == advice[k] IN
    (a.iteration >= 1 /\ a.resp.api = "ok" /\ a.resp.form # "json") =>
      /\ AnalyzeAndFixBuildFailure(a.resp) =
           [success |-> TRUE, cannotFix |-> FALSE,
            fixes |-> [kind |-> "array", items |-> <<>>]]
      /\ ~(pc = "done" /\ result.outcome = "cannot_fix" /\ result.iterations = a.iteration + 1)

C33_BuildingSuccessOnlyOnFinalAttempt ==
  \A p \in 1..Len(phases) :
    (phases[p].phase = "building" /\ phases[p].result = "success") =>
      /\ pc = "done"
      /\ result.success
      /\ result.iterations = phases[p].iteration + 1

\* C34: the active-build entry of an agent is cleared only by the request
\* that set it (startedAt names that request): at a step that clears an
\* entry, its request was building and is building no longer.
C34_OnlyOwnerClearsLock ==
  [][\A a \in Agents :
       (activeAgentBuilds[a] # NoEntry /\ activeAgentBuilds'[a] = NoEntry) =>
         /\ reqs[activeAgentBuilds[a].startedAt].pc = "building"
         /\ reqs'[activeAgentBuilds[a].startedAt].pc # "building"]_vars

\* C35: a build that is in progress has its record and both of its
\* directories: the sweep has removed none of them.
C35_SweepSparesBuildsInProgress ==
  \A b \in BuildIds :
    InProgress(b) =>
      /\ builds[b].status # "absent"
      /\ dirs[b] = [project |-> "present", output |-> "present"]

\* The build of request r is in progress: the sandbox run or the
\* smart-build loop it started has not settled.
Running(r) == reqs[r].pc \in {"building", "sb_running"}

\* C36: no two requests have a sandbox run or a smart-build loop in
\* progress for the same build id.
C36_OneRunPerBuild ==
  \A r1, r2 \in Requests :
    (r1 # r2 /\ Running(r1) /\ Running(r2)) => reqs[r1].buildId # reqs[r2].buildId

\* The .rs files of a source tree.
RsFilesOf(fs) == {t \in DOMAIN fs : IsFile(fs, t) /\ ExtName(t) = ".rs"}

\* C37: every applySafeFixes call of an iteration >= 1 leaves the set of
\* .rs files of the source tree as it found it.
C37_ValidatorKeepsRsFileSet ==
  \A n \in 1..Len(safeCalls) :
    safeCalls[n].iteration >= 1 =>
      RsFilesOf(safeCalls[n].after) = RsFilesOf(safeCalls[n].before)

\* C38: every file that applying the Advisor's proposals has written lies
\* inside projectDir: no path of the source tree climbs above it, and no
\* applySafeFixes or verifyAndFixStructure call has left a file there.
C38_WritesStayInsideProject ==
  /\ \A t \in DOMAIN projectFiles : InsideProject(t)
  /\ \A n \in 1..Len(safeCalls) : \A t \in DOMAIN safeCalls[n].after : InsideProject(t)
  /\ \A n \in 1..Len(structureCalls) :
       \A t \in DOMAIN structureCalls[n].after : InsideProject(t)

\* C39: applying the proposals of the structure answer at iteration 0
\* leaves every file that existed before them in place with its content.
C39_StructurePassKeepsExistingFiles ==
  \A n \in 1..Len(structureCalls) :
    \A t \in DOMAIN structureCalls[n].before :
      /\ t \in DOMAIN structureCalls[n].after
      /\ structureCalls[n].after[t] = structureCalls[n].before[t]

====
